---- MODULE Spec2Model ----
(***************************************************************************)
(* Model of the geometry-and-text assembly core of ocr-obsidian:           *)
(*   ingest/page_numbers.py  printed-page detection and the mode latch     *)
(*   ingest/ocr.py           line clustering and the per-book page loop    *)
(*   ingest/spans.py         highlight -> line selection and span merge    *)
(*                                                                         *)
(* Conventions.                                                            *)
(*   - Python None is the empty tuple None; a present value v is Some(v).  *)
(*   - A str is a sequence of one-character strings, so that tokens can be *)
(*     scanned, normalised and compared by code point as the code does.    *)
(*   - A bbox is a 4-tuple <<x1, y1, x2, y2>> of integers.                 *)
(*   - Centres are kept doubled (x1 + x2, y1 + y2) and ratios are compared *)
(*     by cross-multiplication, so all arithmetic stays in the integers.   *)
(***************************************************************************)
EXTENDS Integers, Sequences, FiniteSets, TLC

VARIABLES
    pc,                  \* which entry point this behaviour exercises and its position
    printed_page_mode,   \* run_ocr: the running per-book mode ("auto" | "arabic")
    page_num,            \* run_ocr / fold: number of pages processed so far
    arabic_switch_min,   \* run_ocr: args.printed_page_arabic_switch_min
    printed_page_detect, \* run_ocr: args.printed_page_detect
    raw_results,         \* run_ocr: raw detect_printed_page result of each page, in page order
    page_records,        \* run_ocr: the printed-page triple recorded for each page
    call,                \* last apply_printed_page_mode call: arguments and return value
    make_spans,          \* run_make_spans: inputs and outputs of the last page processed
    detect               \* detect_printed_page: arguments and return value of one call

vars == <<pc, printed_page_mode, page_num, arabic_switch_min, printed_page_detect,
          raw_results, page_records, call, make_spans, detect>>

-----------------------------------------------------------------------------
(* Values *)

None == <<>>

Some(v) == <<v>>

Get(opt) == opt[1]

Min2(a, b) == IF a <= b THEN a ELSE b

Max2(a, b) == IF a >= b THEN a ELSE b

Abs(a) == IF a < 0 THEN -a ELSE a

SeqRange(s) == {s[i] : i \in 1..Len(s)}

\* The characters the model uses, in code-point order (Python compares str by code point).
Ascii ==
    <<" ", ".",
      "0", "1", "2", "3", "4", "5", "6", "7", "8", "9",
      "A", "B", "C", "D", "E", "F", "G", "H", "I", "J", "K", "L", "M",
      "N", "O", "P", "Q", "R", "S", "T", "U", "V", "W", "X", "Y", "Z",
      "_",
      "a", "b", "c", "d", "e", "f", "g", "h", "i", "j", "k", "l", "m",
      "n", "o", "p", "q", "r", "s", "t", "u", "v", "w", "x", "y", "z",
      "|">>

CharCode == [c \in SeqRange(Ascii) |-> CHOOSE i \in 1..Len(Ascii) : Ascii[i] = c]

\* Python's str < str: the first differing character decides, a proper prefix is smaller.
RECURSIVE StrCompare(_, _)
StrCompare(a, b) ==
    IF a = <<>> /\ b = <<>> THEN 0
    ELSE IF a = <<>> THEN -1
    ELSE IF b = <<>> THEN 1
    ELSE IF CharCode[Head(a)] < CharCode[Head(b)] THEN -1
    ELSE IF CharCode[Head(a)] > CharCode[Head(b)] THEN 1
    ELSE StrCompare(Tail(a), Tail(b))

IntCompare(a, b) == IF a < b THEN -1 ELSE IF a > b THEN 1 ELSE 0

\* Python's tuple < tuple on integer tuples of equal length.
RECURSIVE TupleCompare(_, _)
TupleCompare(a, b) ==
    IF a = <<>> THEN 0
    ELSE IF Head(a) # Head(b) THEN IntCompare(Head(a), Head(b))
    ELSE TupleCompare(Tail(a), Tail(b))

Digits == <<"0", "1", "2", "3", "4", "5", "6", "7", "8", "9">>

IsDigit(ch) == ch \in SeqRange(Digits)

DigitValue(ch) == (CHOOSE i \in 1..Len(Digits) : Digits[i] = ch) - 1

\* int(str) on a string of decimal digits.
RECURSIVE StrToInt(_)
StrToInt(s) ==
    IF s = <<>> THEN 0
    ELSE StrToInt(SubSeq(s, 1, Len(s) - 1)) * 10 + DigitValue(s[Len(s)])

\* str(int) for a non-negative integer.
RECURSIVE IntToStr(_)
IntToStr(n) ==
    IF n < 10 THEN <<Digits[n + 1]>>
    ELSE IntToStr(n \div 10) \o <<Digits[(n % 10) + 1]>>

UpperCase == <<"A", "B", "C", "D", "E", "F", "G", "H", "I", "J", "K", "L", "M",
               "N", "O", "P", "Q", "R", "S", "T", "U", "V", "W", "X", "Y", "Z">>

LowerCase == <<"a", "b", "c", "d", "e", "f", "g", "h", "i", "j", "k", "l", "m",
               "n", "o", "p", "q", "r", "s", "t", "u", "v", "w", "x", "y", "z">>

\* str.lower() on one character.
LowerChar(ch) ==
    IF ch \in SeqRange(UpperCase)
    THEN LowerCase[CHOOSE i \in 1..Len(UpperCase) : UpperCase[i] = ch]
    ELSE ch

Lower(s) == [i \in 1..Len(s) |-> LowerChar(s[i])]

IsAlnum(ch) == IsDigit(ch) \/ ch \in SeqRange(UpperCase) \/ ch \in SeqRange(LowerCase)

\* The elements of s at the indexes idx, in order (a filtering comprehension).
FilterSeq(s, idx) ==
    LET nth(k) == CHOOSE i \in idx : Cardinality({j \in idx : j <= i}) = k
    IN  [k \in 1..Cardinality(idx) |-> s[nth(k)]]

\* sorted(s, key=...): a stable sort, cmp[i][j] being the three-way comparison of
\* the keys of s[i] and s[j].
StableSort(s, cmp) ==
    LET rank(i) == 1 + Cardinality({j \in 1..Len(s) :
                        \/ cmp[j][i] < 0
                        \/ cmp[j][i] = 0 /\ j < i})
    IN  [k \in 1..Len(s) |-> s[CHOOSE i \in 1..Len(s) : rank(i) = k]]

\* Comparison of two tuples given the comparisons of their components, first to last.
RECURSIVE FirstNonZero(_)
FirstNonZero(cs) ==
    IF cs = <<>> THEN 0
    ELSE IF Head(cs) # 0 THEN Head(cs)
    ELSE FirstNonZero(Tail(cs))


-----------------------------------------------------------------------------
(* page_numbers.py: the result triple and the mode latch *)

NoResult == [printed_page |-> None, printed_page_text |-> None, printed_page_kind |-> "None"]

\* apply_printed_page_mode(result, mode, arabic_switch_min) -> (applied, next_mode)
ApplyModeNeverSuppress(result, mode, switch_min) ==
    LET current_mode == IF mode = "arabic" THEN "arabic" ELSE "auto"
    IN  IF result.printed_page_kind = "arabic"
           /\ result.printed_page # None
           /\ Get(result.printed_page) >= switch_min
        THEN [applied |-> result, next_mode |-> "arabic"]
        ELSE [applied |-> result, next_mode |-> current_mode]

ApplyModeRevertOnRoman(result, mode, switch_min) ==
    LET current_mode == IF mode = "arabic" THEN "arabic" ELSE "auto"
    IN  IF current_mode = "arabic" /\ result.printed_page_kind = "roman"
        THEN [applied |-> NoResult, next_mode |-> "auto"]
        ELSE IF result.printed_page_kind = "arabic"
                /\ result.printed_page # None
                /\ Get(result.printed_page) >= switch_min
        THEN [applied |-> result, next_mode |-> "arabic"]
        ELSE [applied |-> result, next_mode |-> current_mode]

ApplyModeLatchAnyArabic(result, mode, switch_min) ==
    LET current_mode == IF mode = "arabic" THEN "arabic" ELSE "auto"
    IN  IF current_mode = "arabic" /\ result.printed_page_kind = "roman"
        THEN [applied |-> NoResult, next_mode |-> current_mode]
        ELSE IF result.printed_page_kind = "arabic"
        THEN [applied |-> result, next_mode |-> "arabic"]
        ELSE [applied |-> result, next_mode |-> current_mode]

ApplyPrintedPageMode(result, mode, switch_min) ==
    LET current_mode == IF mode = "arabic" THEN "arabic" ELSE "auto"
    IN  IF current_mode = "arabic" /\ result.printed_page_kind = "roman"
        THEN [applied |-> [result EXCEPT !.printed_page = None,
                                         !.printed_page_text = None,
                                         !.printed_page_kind = "None"],
              next_mode |-> current_mode]
        ELSE IF result.printed_page_kind = "arabic"
                /\ result.printed_page # None
                /\ Get(result.printed_page) >= switch_min
        THEN [applied |-> result, next_mode |-> "arabic"]
        ELSE [applied |-> result, next_mode |-> current_mode]

-----------------------------------------------------------------------------
(* A book's per-page results folded through apply_printed_page_mode *)

MaxFoldPages == 3

SwitchMins == {-1, 0, 10, 15}

\* Result dicts of any shape, including ones detect_printed_page never builds.
AnyResults ==
    [printed_page : {None, Some(0), Some(9), Some(10), Some(14)},
     printed_page_text : {None, Some(<<"1", "4">>), Some(<<"x", "i", "v">>)},
     printed_page_kind : {"None", "arabic", "roman"}]

Idle == None

InitMode ==
    /\ pc = "fold"
    /\ printed_page_mode = "auto"
    /\ page_num = 0
    /\ arabic_switch_min \in SwitchMins
    /\ printed_page_detect = TRUE
    /\ raw_results = <<>>
    /\ page_records = <<>>
    /\ call = Idle
    /\ make_spans = Idle
    /\ detect = Idle

\* One step of the fold: (applied, mode) = apply_printed_page_mode(result, mode, ...)
FoldPage ==
    /\ pc = "fold"
    /\ page_num < MaxFoldPages
    /\ \E result \in AnyResults :
          LET r == ApplyPrintedPageMode(result, printed_page_mode, arabic_switch_min)
          IN  /\ call' = Some([result |-> result, mode |-> printed_page_mode,
                               applied |-> r.applied, next_mode |-> r.next_mode])
              /\ printed_page_mode' = r.next_mode
    /\ page_num' = page_num + 1
    /\ UNCHANGED <<pc, arabic_switch_min, printed_page_detect, raw_results,
                   page_records, make_spans, detect>>

NextMode == FoldPage

SpecMode == InitMode /\ [][NextMode]_vars

\* C1: once the running mode is arabic, it is arabic after every later page of the fold.
C1_ModeLatchOneWay == [][printed_page_mode = "arabic" => printed_page_mode' = "arabic"]_vars

\* A call made in mode arabic with a result that does not itself latch.
C1_Witness ==
    /\ call # Idle
    /\ Get(call).mode = "arabic"
    /\ Get(call).result.printed_page_kind # "arabic"
    /\ printed_page_mode = "arabic"

\* C2: mode arabic with a roman result gives the all-none result and mode arabic;
\* every other call returns the input result unchanged.
C2_SuppressOnlyRomanInArabic ==
    call # Idle =>
        LET c == Get(call)
        IN  IF c.mode = "arabic" /\ c.result.printed_page_kind = "roman"
            THEN /\ c.applied.printed_page = None
                 /\ c.applied.printed_page_text = None
                 /\ c.applied.printed_page_kind = "None"
                 /\ c.next_mode = "arabic"
            ELSE c.applied = c.result

C2_Witness ==
    /\ call # Idle
    /\ Get(call).mode = "arabic"
    /\ Get(call).result.printed_page_kind = "roman"
    /\ Get(call).result.printed_page = Some(14)

-----------------------------------------------------------------------------
(* page_numbers.py: roman numerals *)

ROMAN_CHARS == {"i", "v", "x", "l", "c", "d", "m"}

ROMAN_SUBTRACTIVES ==
    {<<"i", "v">>, <<"i", "x">>, <<"x", "l">>, <<"x", "c">>, <<"c", "d">>, <<"c", "m">>}

ROMAN_VALUES ==
    [ch \in ROMAN_CHARS |->
        CASE ch = "i" -> 1 [] ch = "v" -> 5 [] ch = "x" -> 10 [] ch = "l" -> 50
          [] ch = "c" -> 100 [] ch = "d" -> 500 [] ch = "m" -> 1000]

Rep(ch, k) == [i \in 1..k |-> ch]

\* One decimal place of ROMAN_STRICT_RE, e.g. (ix|iv|v?i{0,3}).
RomanPlace(nine, four, five, one) ==
    {nine, four} \cup {f \o Rep(one, k) : f \in {<<>>, <<five>>}, k \in 0..3}

\* ROMAN_STRICT_RE.fullmatch(n): ^m{0,4}(cm|cd|d?c{0,3})(xc|xl|l?x{0,3})(ix|iv|v?i{0,3})$
RomanStrictMatch(n) ==
    \E i \in 0..Len(n) : \E j \in i..Len(n) : \E k \in j..Len(n) :
        /\ SubSeq(n, 1, i) \in {Rep("m", t) : t \in 0..4}
        /\ SubSeq(n, i + 1, j) \in RomanPlace(<<"c", "m">>, <<"c", "d">>, "d", "c")
        /\ SubSeq(n, j + 1, k) \in RomanPlace(<<"x", "c">>, <<"x", "l">>, "l", "x")
        /\ SubSeq(n, k + 1, Len(n)) \in RomanPlace(<<"i", "x">>, <<"i", "v">>, "v", "i")

normalize_roman(s) == FilterSeq(Lower(s), {i \in 1..Len(s) : LowerChar(s[i]) \in ROMAN_CHARS})

\* The while loop of roman_to_int from position index with the running total;
\* None when a non-standard subtractive pair is met.
RECURSIVE RomanScan(_, _, _)
RomanScan(n, index, total) ==
    IF index > Len(n) THEN Some(total)
    ELSE IF index + 1 <= Len(n) /\ ROMAN_VALUES[n[index]] < ROMAN_VALUES[n[index + 1]]
    THEN IF <<n[index], n[index + 1]>> \notin ROMAN_SUBTRACTIVES
         THEN None
         ELSE RomanScan(n, index + 2, total + ROMAN_VALUES[n[index + 1]] - ROMAN_VALUES[n[index]])
    ELSE RomanScan(n, index + 1, total + ROMAN_VALUES[n[index]])

\* The decoding loop alone, without the ROMAN_STRICT_RE test.
RomanToIntNoGrammar(s) ==
    LET normalized == normalize_roman(s)
    IN  IF normalized = <<>> THEN None
        ELSE RomanScan(normalized, 1, 0)

roman_to_int(s) ==
    LET normalized == normalize_roman(s)
    IN  IF normalized = <<>> THEN None
        ELSE IF ~RomanStrictMatch(normalized) THEN None
        ELSE RomanScan(normalized, 1, 0)

is_plausible_roman(s, min_len, max_value) ==
    LET normalized == normalize_roman(s)
    IN  IF Len(normalized) < Max2(1, min_len) THEN FALSE
        ELSE IF roman_to_int(normalized) = None THEN FALSE
        ELSE Get(roman_to_int(normalized)) <= max_value

\* ARABIC_TOKEN_RE.fullmatch(text): ^\d{1,4}$
ArabicTokenMatch(text) ==
    /\ Len(text) >= 1
    /\ Len(text) <= 4
    /\ \A i \in 1..Len(text) : IsDigit(text[i])

-----------------------------------------------------------------------------
(* page_numbers.py: scan side and candidate geometry *)

EndsWith(s, suffix) ==
    /\ Len(s) >= Len(suffix)
    /\ SubSeq(s, Len(s) - Len(suffix) + 1, Len(s)) = suffix

\* Path(name).stem for a file name without directories: the part before the last
\* dot, unless that dot is the first character.
Stem(name) ==
    LET dots == {i \in 2..Len(name) : name[i] = "."}
    IN  IF dots = {} THEN name
        ELSE SubSeq(name, 1, (CHOOSE i \in dots : \A j \in dots : j <= i) - 1)

infer_scan_side(scan_relpath) ==
    LET stem == Lower(Stem(scan_relpath))
    IN  IF EndsWith(stem, <<"_", "l">>) THEN "left"
        ELSE IF EndsWith(stem, <<"_", "r">>) THEN "right"
        ELSE "neutral"

\* _center_norm: the centre (x, y) as fractions of the page. The model keeps the
\* numerators x1 + x2 and y1 + y2; the denominators are 2 * width and 2 * height
\* with width = max(1, page_width) and height = max(1, page_height).
CenterNum(bbox) == [x |-> bbox[1] + bbox[3], y |-> bbox[2] + bbox[4]]

NormWidth(page_width) == Max2(1, page_width)

NormHeight(page_height) == Max2(1, page_height)

\* _is_preferred_region: x_center_norm < 0.35 (left), > 0.65 (right), else True.
IsPreferredRegion(x_num, page_width, side) ==
    IF side = "left" THEN x_num * 100 < 35 * 2 * NormWidth(page_width)
    ELSE IF side = "right" THEN x_num * 100 > 65 * 2 * NormWidth(page_width)
    ELSE TRUE

\* _edge_score, as a numerator over 2 * width.
EdgeScore(x_num, page_width, side) ==
    IF side = "left" THEN 2 * NormWidth(page_width) - x_num
    ELSE IF side = "right" THEN x_num
    ELSE Max2(x_num, 2 * NormWidth(page_width) - x_num)

\* _candidate_record
CandidateRecord(text, confidence, bbox, source, line_id, page_width, page_height, side) ==
    [text |-> text,
     conf |-> confidence,
     bbox |-> bbox,
     x_center_norm |-> CenterNum(bbox).x,
     y_center_norm |-> CenterNum(bbox).y,
     source |-> source,
     line_id |-> line_id,
     preferred |-> IsPreferredRegion(CenterNum(bbox).x, page_width, side),
     edge_score |-> EdgeScore(CenterNum(bbox).x, page_width, side)]

SourceStr(source) ==
    IF source = "line" THEN <<"l", "i", "n", "e">> ELSE <<"w", "o", "r", "d">>

LineIdStr(line_id) == IF line_id = None THEN <<>> ELSE Get(line_id)

\* _candidate_sort_key, as the three-way comparison of the keys of a and b:
\* (0 if preferred else 1, -edge_score, -conf, y_center_norm, text,
\*  line_id or "", source, bbox)
CandidateKeyCompareConfFirst(a, b) ==
    FirstNonZero(<<
        IntCompare(-a.conf, -b.conf),
        IntCompare(IF a.preferred THEN 0 ELSE 1, IF b.preferred THEN 0 ELSE 1),
        IntCompare(-a.edge_score, -b.edge_score),
        IntCompare(a.y_center_norm, b.y_center_norm),
        StrCompare(a.text, b.text),
        StrCompare(LineIdStr(a.line_id), LineIdStr(b.line_id)),
        StrCompare(SourceStr(a.source), SourceStr(b.source)),
        TupleCompare(a.bbox, b.bbox)>>)

CandidateKeyCompareNoText(a, b) ==
    FirstNonZero(<<
        IntCompare(IF a.preferred THEN 0 ELSE 1, IF b.preferred THEN 0 ELSE 1),
        IntCompare(-a.edge_score, -b.edge_score),
        IntCompare(-a.conf, -b.conf),
        IntCompare(a.y_center_norm, b.y_center_norm),
        StrCompare(LineIdStr(a.line_id), LineIdStr(b.line_id)),
        StrCompare(SourceStr(a.source), SourceStr(b.source)),
        TupleCompare(a.bbox, b.bbox)>>)

CandidateKeyCompare(a, b) ==
    FirstNonZero(<<
        IntCompare(IF a.preferred THEN 0 ELSE 1, IF b.preferred THEN 0 ELSE 1),
        IntCompare(-a.edge_score, -b.edge_score),
        IntCompare(-a.conf, -b.conf),
        IntCompare(a.y_center_norm, b.y_center_norm),
        StrCompare(a.text, b.text),
        StrCompare(LineIdStr(a.line_id), LineIdStr(b.line_id)),
        StrCompare(SourceStr(a.source), SourceStr(b.source)),
        TupleCompare(a.bbox, b.bbox)>>)

\* _strip_internal_fields
StripInternalFields(c) ==
    [text |-> c.text, conf |-> c.conf, bbox |-> c.bbox,
     x_center_norm |-> c.x_center_norm, y_center_norm |-> c.y_center_norm,
     source |-> c.source, line_id |-> c.line_id]

\* str.strip() for the blank the model has.
RECURSIVE Strip(_)
Strip(s) ==
    IF s = <<>> THEN s
    ELSE IF Head(s) = " " THEN Strip(Tail(s))
    ELSE IF s[Len(s)] = " " THEN Strip(SubSeq(s, 1, Len(s) - 1))
    ELSE s

\* ALNUM_TOKEN_RE.search(text): ([A-Za-z0-9]+)[^A-Za-z0-9]*$  -- group 1 is the last
\* maximal run of alphanumerics; no match when the text has none.
AlnumTokenSearch(text) ==
    LET alnum == {i \in 1..Len(text) : IsAlnum(text[i])}
        last == CHOOSE i \in alnum : \A j \in alnum : j <= i
        first == CHOOSE i \in 1..last :
                    /\ \A j \in i..last : IsAlnum(text[j])
                    /\ (i = 1 \/ ~IsAlnum(text[i - 1]))
    IN  IF alnum = {} THEN None ELSE Some(SubSeq(text, first, last))

\* _extract_terminal_line_token
ExtractTerminalLineToken(line) ==
    IF line.words # <<>> THEN Some(line.words[Len(line.words)].text)
    ELSE AlnumTokenSearch(Strip(line.text))

-----------------------------------------------------------------------------
(* page_numbers.py: detect_printed_page *)

\* A band that leaves out the centre lying exactly on its limit.
BelowTopBandInclusive(bbox, a) ==
    CenterNum(bbox).y * a.page_height * a.top_band_frac.den
        >= Max2(0, a.top_band_frac.num) * NormHeight(a.page_height)
            * 2 * NormHeight(a.page_height)

\* (y_norm * page_height) > top_band_limit, with
\* top_band_limit = max(0.0, top_band_frac) * max(1, page_height) and
\* top_band_frac = a.top_band_frac.num / a.top_band_frac.den.
BelowTopBand(bbox, a) ==
    CenterNum(bbox).y * a.page_height * a.top_band_frac.den
        > Max2(0, a.top_band_frac.num) * NormHeight(a.page_height)
            * 2 * NormHeight(a.page_height)

WordCandidates(page, a) ==
    LET kept == FilterSeq(page.words,
                         {i \in 1..Len(page.words) : ~BelowTopBand(page.words[i].bbox, a)})
    IN  [i \in 1..Len(kept) |->
            CandidateRecord(kept[i].text, kept[i].confidence, kept[i].bbox, "word", None,
                            a.page_width, a.page_height, a.side)]

\* A key of sorted_lines without the line id.
TopLineCompareNoId(l1, l2) ==
    FirstNonZero(<<
        IntCompare(CenterNum(l1.bbox).y, CenterNum(l2.bbox).y),
        IntCompare(l1.bbox[1], l2.bbox[1])>>)

\* The sort key of sorted_lines: (y_center_norm, bbox[0], line_id)
TopLineCompare(l1, l2) ==
    FirstNonZero(<<
        IntCompare(CenterNum(l1.bbox).y, CenterNum(l2.bbox).y),
        IntCompare(l1.bbox[1], l2.bbox[1]),
        StrCompare(l1.line_id, l2.line_id)>>)

LineCandidates(page, a) ==
    LET sorted_lines == StableSort(page.lines,
                            [i \in 1..Len(page.lines) |-> [j \in 1..Len(page.lines) |->
                                TopLineCompare(page.lines[i], page.lines[j])]])
        top == SubSeq(sorted_lines, 1, Min2(Len(sorted_lines), Max2(0, a.max_top_lines)))
        kept == FilterSeq(top, {i \in 1..Len(top) :
                    /\ ~BelowTopBand(top[i].bbox, a)
                    /\ ExtractTerminalLineToken(top[i]) # None
                    /\ Get(ExtractTerminalLineToken(top[i])) # <<>>})
    IN  [i \in 1..Len(kept) |->
            CandidateRecord(Get(ExtractTerminalLineToken(kept[i])),
                            IF kept[i].words # <<>>
                                THEN kept[i].words[Len(kept[i].words)].confidence
                                ELSE 0,
                            kept[i].bbox, "line", Some(kept[i].line_id),
                            a.page_width, a.page_height, a.side)]

Candidates(page, a) == WordCandidates(page, a) \o LineCandidates(page, a)

ArabicCandidates(page, a) ==
    LET cs == Candidates(page, a)
    IN  FilterSeq(cs, {i \in 1..Len(cs) :
                         cs[i].conf >= a.min_conf /\ ArabicTokenMatch(cs[i].text)})

\* The roman filter without its length test.
RomanCandidatesAnyLength(page, a) ==
    LET cs == Candidates(page, a)
    IN  FilterSeq(cs, {i \in 1..Len(cs) :
            /\ ~(cs[i].conf < a.min_conf)
            /\ roman_to_int(normalize_roman(cs[i].text)) # None
            /\ ~(Get(roman_to_int(normalize_roman(cs[i].text))) > a.roman_max_value)})

RomanCandidates(page, a) ==
    LET cs == Candidates(page, a)
    IN  FilterSeq(cs, {i \in 1..Len(cs) :
            /\ ~(cs[i].conf < a.min_conf)
            /\ ~(Len(normalize_roman(cs[i].text)) < a.roman_min_len)
            /\ roman_to_int(normalize_roman(cs[i].text)) # None
            /\ ~(Get(roman_to_int(normalize_roman(cs[i].text))) > a.roman_max_value)})

\* A ranking that remembers that a call was made before: from the second call on
\* the key is taken in descending order.
RankCandidatesAfterFirstCall(cands) ==
    StableSort(cands, [i \in 1..Len(cands) |-> [j \in 1..Len(cands) |->
                          IF page_num > 0
                          THEN CandidateKeyCompare(cands[j], cands[i])
                          ELSE CandidateKeyCompare(cands[i], cands[j])]])

RankCandidates(cands) ==
    StableSort(cands, [i \in 1..Len(cands) |-> [j \in 1..Len(cands) |->
                          CandidateKeyCompare(cands[i], cands[j])]])

\* arabic_ranked[:10] and roman_ranked[:10]
TopTen(ranked) == SubSeq(ranked, 1, Min2(Len(ranked), 10))

RomanValue(c) == Get(roman_to_int(normalize_roman(c.text)))

\* The debug dict of a roman candidate keeps its _roman_value.
StripRoman(c) ==
    [text |-> c.text, conf |-> c.conf, bbox |-> c.bbox,
     x_center_norm |-> c.x_center_norm, y_center_norm |-> c.y_center_norm,
     source |-> c.source, line_id |-> c.line_id, roman_value |-> RomanValue(c)]

EmptyDebug == [selected_kind |-> "absent"]

\* detect_printed_page(page, **a) -> (result, debug_payload)
DetectRomanFirst(page, a) ==
    LET arabic_ranked == RankCandidates(ArabicCandidates(page, a))
        roman_ranked == RankCandidates(RomanCandidates(page, a))
    IN  IF roman_ranked # <<>>
        THEN [result |-> [printed_page |-> Some(RomanValue(roman_ranked[1])),
                          printed_page_text |-> Some(roman_ranked[1].text),
                          printed_page_kind |-> "roman"],
              debug_payload |->
                  IF a.debug
                  THEN [selected |-> Some(StripRoman(roman_ranked[1])),
                        selected_kind |-> "roman",
                        arabic_top_candidates |-> <<>>,
                        roman_top_candidates |->
                            [i \in 1..Len(TopTen(roman_ranked)) |-> StripRoman(roman_ranked[i])]]
                  ELSE EmptyDebug]
        ELSE IF arabic_ranked # <<>>
        THEN [result |-> [printed_page |-> Some(StrToInt(arabic_ranked[1].text)),
                          printed_page_text |-> Some(arabic_ranked[1].text),
                          printed_page_kind |-> "arabic"],
              debug_payload |->
                  IF a.debug
                  THEN [selected |-> Some(StripInternalFields(arabic_ranked[1])),
                        selected_kind |-> "arabic",
                        arabic_top_candidates |->
                            [i \in 1..Len(TopTen(arabic_ranked)) |->
                                StripInternalFields(arabic_ranked[i])],
                        roman_top_candidates |-> <<>>]
                  ELSE EmptyDebug]
        ELSE [result |-> NoResult,
              debug_payload |->
                  IF a.debug
                  THEN [selected |-> None, selected_kind |-> "None",
                        arabic_top_candidates |-> <<>>, roman_top_candidates |-> <<>>]
                  ELSE EmptyDebug]

DetectPrintedPage(page, a) ==
    LET arabic_ranked == RankCandidates(ArabicCandidates(page, a))
        roman_ranked == RankCandidates(RomanCandidates(page, a))
    IN  IF arabic_ranked # <<>>
        THEN [result |-> [printed_page |-> Some(StrToInt(arabic_ranked[1].text)),
                          printed_page_text |-> Some(arabic_ranked[1].text),
                          printed_page_kind |-> "arabic"],
              debug_payload |->
                  IF a.debug
                  THEN [selected |-> Some(StripInternalFields(arabic_ranked[1])),
                        selected_kind |-> "arabic",
                        arabic_top_candidates |->
                            [i \in 1..Len(TopTen(arabic_ranked)) |->
                                StripInternalFields(arabic_ranked[i])],
                        roman_top_candidates |-> <<>>]
                  ELSE EmptyDebug]
        ELSE IF roman_ranked # <<>>
        THEN [result |-> [printed_page |-> Some(RomanValue(roman_ranked[1])),
                          printed_page_text |-> Some(roman_ranked[1].text),
                          printed_page_kind |-> "roman"],
              debug_payload |->
                  IF a.debug
                  THEN [selected |-> Some(StripRoman(roman_ranked[1])),
                        selected_kind |-> "roman",
                        arabic_top_candidates |-> <<>>,
                        roman_top_candidates |->
                            [i \in 1..Len(TopTen(roman_ranked)) |-> StripRoman(roman_ranked[i])]]
                  ELSE EmptyDebug]
        ELSE [result |-> NoResult,
              debug_payload |->
                  IF a.debug
                  THEN [selected |-> None, selected_kind |-> "None",
                        arabic_top_candidates |-> <<>>, roman_top_candidates |-> <<>>]
                  ELSE EmptyDebug]

-----------------------------------------------------------------------------
(* Pages given to detect_printed_page *)

SetMin(S) == CHOOSE x \in S : \A y \in S : x <= y

SetMax(S) == CHOOSE x \in S : \A y \in S : x >= y

\* _merge_bbox (ocr.py) and _bbox_union (spans.py): the smallest box around boxes.
BBoxUnion(boxes) ==
    <<SetMin({boxes[i][1] : i \in 1..Len(boxes)}),
      SetMin({boxes[i][2] : i \in 1..Len(boxes)}),
      SetMax({boxes[i][3] : i \in 1..Len(boxes)}),
      SetMax({boxes[i][4] : i \in 1..Len(boxes)})>>

\* " ".join(texts)
RECURSIVE JoinSpace(_)
JoinSpace(texts) ==
    IF texts = <<>> THEN <<>>
    ELSE IF Len(texts) = 1 THEN texts[1]
    ELSE texts[1] \o <<" ">> \o JoinSpace(Tail(texts))

\* An OcrLine over the given words: box = union of the word boxes, text = joined texts.
\* A line that takes the box of its first word alone.
MkLineFirstWordBox(line_id, words) ==
    [line_id |-> line_id,
     bbox |-> words[1].bbox,
     words |-> words,
     text |-> JoinSpace([i \in 1..Len(words) |-> words[i].text])]

MkLine(line_id, words) ==
    [line_id |-> line_id,
     bbox |-> BBoxUnion([i \in 1..Len(words) |-> words[i].bbox]),
     words |-> words,
     text |-> JoinSpace([i \in 1..Len(words) |-> words[i].text])]

W(text, bbox, confidence) == [text |-> text, bbox |-> bbox, confidence |-> confidence]

T14 == <<"1", "4">>

T7 == <<"7">>

Txiv == <<"x", "i", "v">>

Tm == <<"m">>

\* Words an OCR engine may report on a 100 x 100 page whose top band ends at y = 12.
WordPool ==
    {W(T14, <<4, 2, 14, 10>>, 90),     \* near the left edge
     W(T14, <<86, 2, 96, 10>>, 90),    \* near the right edge
     W(T14, <<35, 2, 45, 10>>, 90),    \* left half, centre at 0.40
     W(T14, <<55, 2, 65, 10>>, 95),    \* right half, centre at 0.60
     W(T14, <<33, 2, 47, 10>>, 90),    \* centre at 0.40 again, wider box
     W(T7, <<35, 2, 45, 10>>, 90),     \* another numeral in the same box
     W(T14, <<35, 4, 45, 12>>, 90),    \* same column, lower in the band
     W(T14, <<86, 2, 96, 10>>, 39),    \* below min_conf
     W(Txiv, <<86, 2, 96, 10>>, 95),
     W(Txiv, <<4, 2, 14, 10>>, 40),    \* exactly min_conf
     W(Tm, <<86, 2, 96, 10>>, 95),     \* single roman letter
     W(T14, <<4, 20, 14, 30>>, 95)}    \* below the top band

MaxWords == 2

WordLists == UNION {[1..n -> WordPool] : n \in 0..MaxWords}

ScanNames ==
    {<<"s", "_", "L", ".", "p", "n", "g">>,
     <<"s", "_", "R", ".", "p", "n", "g">>,
     <<"s", ".", "p", "n", "g">>}

\* f"p{page_num}_l{index}"
LineId(page, index) == <<"p">> \o IntToStr(page) \o <<"_", "l">> \o IntToStr(index)

Layouts == {"none", "all", "each", "last", "last_blank_id"}

\* The lines of a page over its words: no lines, one line with every word, one line
\* per word, or a single line holding the last word (with a generated or an empty id).
LinesOf(words, layout) ==
    IF words = <<>> \/ layout = "none" THEN <<>>
    ELSE IF layout = "all" THEN <<MkLine(LineId(1, 1), words)>>
    ELSE IF layout = "each" THEN [i \in 1..Len(words) |-> MkLine(LineId(1, i), <<words[i]>>)]
    ELSE IF layout = "last" THEN <<MkLine(LineId(1, 1), <<words[Len(words)]>>)>>
    ELSE <<MkLine(<<>>, <<words[Len(words)]>>)>>

\* The keyword arguments run_ocr passes, with their defaults.
DetectArgs(side, debug) ==
    [page_width |-> 100, page_height |-> 100,
     top_band_frac |-> [num |-> 12, den |-> 100],
     min_conf |-> 40, roman_min_len |-> 2, roman_max_value |-> 80,
     side |-> side, max_top_lines |-> 5, debug |-> debug]

InitDetect ==
    /\ pc = "detect"
    /\ printed_page_mode = "auto"
    /\ page_num = 0
    /\ arabic_switch_min = 10
    /\ printed_page_detect = TRUE
    /\ raw_results = <<>>
    /\ page_records = <<>>
    /\ call = Idle
    /\ make_spans = Idle
    /\ \E words \in WordLists, layout \in Layouts, name \in ScanNames :
          detect = [page |-> [scan_relpath |-> name, words |-> words,
                              lines |-> LinesOf(words, layout)],
                    args |-> DetectArgs(infer_scan_side(name), TRUE),
                    out |-> None]

\* result, debug = detect_printed_page(page, **args)
DetectCall ==
    /\ pc = "detect"
    /\ detect.out = None
    /\ detect' = [detect EXCEPT !.out = Some(DetectPrintedPage(detect.page, detect.args))]
    /\ pc' = "detected"
    /\ UNCHANGED <<printed_page_mode, page_num, arabic_switch_min, printed_page_detect,
                   raw_results, page_records, call, make_spans>>

NextDetect == DetectCall

SpecDetect == InitDetect /\ [][NextDetect]_vars

-----------------------------------------------------------------------------
(* Claims about detect_printed_page *)

DetectOut == Get(detect.out)

DetectCands == Candidates(detect.page, detect.args)

\* A token of 1 to 4 decimal digits.
IsShortNumber(text) ==
    Len(text) \in 1..4 /\ \A i \in 1..Len(text) : text[i] \in SeqRange(Digits)

HasArabicSurvivor ==
    \E i \in 1..Len(DetectCands) :
        DetectCands[i].conf >= detect.args.min_conf /\ IsShortNumber(DetectCands[i].text)

HasRomanSurvivor == RomanCandidates(detect.page, detect.args) # <<>>

\* C8: the kind is arabic whenever some candidate with conf >= min_conf is a 1-4 digit
\* token; it is roman only when there is none and a roman candidate passes its
\* filter; with no survivor in either class the three result fields are none.
C8_ArabicBeforeRoman ==
    detect.out # None =>
        /\ HasArabicSurvivor => DetectOut.result.printed_page_kind = "arabic"
        /\ DetectOut.result.printed_page_kind = "roman"
              => ~HasArabicSurvivor /\ HasRomanSurvivor
        /\ ~HasArabicSurvivor /\ ~HasRomanSurvivor => DetectOut.result = NoResult

\* An arabic result although a roman candidate that passes its filter sorts first.
C8_Witness ==
    /\ detect.out # None
    /\ DetectOut.result.printed_page_kind = "arabic"
    /\ \E r \in SeqRange(RomanCandidates(detect.page, detect.args)) :
          \A c \in SeqRange(ArabicCandidates(detect.page, detect.args)) :
              /\ r.preferred /\ ~c.preferred
              /\ r.edge_score > c.edge_score
              /\ r.conf > c.conf

\* The candidates of the class the call selected from.
SelectedClass ==
    IF DetectOut.result.printed_page_kind = "arabic"
    THEN ArabicCandidates(detect.page, detect.args)
    ELSE RomanCandidates(detect.page, detect.args)

SelectedIs(c) ==
    /\ StripInternalFields(c) = StripInternalFields(Get(DetectOut.debug_payload.selected))
    /\ DetectOut.result.printed_page_text = Some(c.text)

\* The key as the claim lists it: preferred region, edge score, confidence, vertical
\* centre, token text, line identifier, bounding box.
ClaimedKeyCompare(a, b) ==
    FirstNonZero(<<
        IntCompare(IF a.preferred THEN 0 ELSE 1, IF b.preferred THEN 0 ELSE 1),
        IntCompare(b.edge_score, a.edge_score),
        IntCompare(b.conf, a.conf),
        IntCompare(a.y_center_norm, b.y_center_norm),
        StrCompare(a.text, b.text),
        StrCompare(LineIdStr(a.line_id), LineIdStr(b.line_id)),
        TupleCompare(a.bbox, b.bbox)>>)

\* The same key with the candidate's source ("line" before "word") between the line
\* identifier and the bounding box.
AmendedKeyCompare(a, b) ==
    FirstNonZero(<<
        IntCompare(IF a.preferred THEN 0 ELSE 1, IF b.preferred THEN 0 ELSE 1),
        IntCompare(b.edge_score, a.edge_score),
        IntCompare(b.conf, a.conf),
        IntCompare(a.y_center_norm, b.y_center_norm),
        StrCompare(a.text, b.text),
        StrCompare(LineIdStr(a.line_id), LineIdStr(b.line_id)),
        IF a.source = b.source THEN 0 ELSE IF a.source = "line" THEN -1 ELSE 1,
        TupleCompare(a.bbox, b.bbox)>>)

RankedPayload ==
    IF DetectOut.result.printed_page_kind = "arabic"
    THEN DetectOut.debug_payload.arabic_top_candidates
    ELSE DetectOut.debug_payload.roman_top_candidates

\* Horizontal centre in the left half (side left) or the right half (side right) of
\* the page; anywhere for neutral.
InSideHalf(c) ==
    IF detect.args.side = "left" THEN c.x_center_norm < detect.args.page_width
    ELSE IF detect.args.side = "right" THEN c.x_center_norm > detect.args.page_width
    ELSE TRUE

\* C10: in the ranking every candidate in the half of the page named by the side
\* comes before every candidate outside it, whatever their confidence; so the
\* selected candidate lies in that half whenever a candidate of its class does.
C10_SideHalfSortsFirst ==
    (detect.out # None /\ DetectOut.result.printed_page_kind # "None") =>
        /\ \A i, j \in 1..Len(RankedPayload) :
              InSideHalf(RankedPayload[i]) /\ ~InSideHalf(RankedPayload[j]) => i < j
        /\ (\E c \in SeqRange(SelectedClass) : InSideHalf(c))
              => InSideHalf(Get(DetectOut.debug_payload.selected))

\* A _L page with the same numeral in both halves, the one outside the left half
\* with the higher confidence; the one in the left half is selected.
C10_Witness ==
    /\ detect.out # None
    /\ EndsWith(Lower(Stem(detect.page.scan_relpath)), <<"_", "l">>)
    /\ Len(RankedPayload) = 2
    /\ RankedPayload[1].text = RankedPayload[2].text
    /\ InSideHalf(RankedPayload[1]) /\ ~InSideHalf(RankedPayload[2])
    /\ RankedPayload[1].conf < RankedPayload[2].conf
    /\ Get(DetectOut.debug_payload.selected) = RankedPayload[1]

-----------------------------------------------------------------------------
(* spans.py: line selection, context window and span merge *)

\* _bbox_overlap: area of the intersection, 0 when the boxes do not overlap.
BBoxOverlap(a, b) ==
    LET x1 == Max2(a[1], b[1])
        y1 == Max2(a[2], b[2])
        x2 == Min2(a[3], b[3])
        y2 == Min2(a[4], b[4])
    IN  IF x2 <= x1 \/ y2 <= y1 THEN 0 ELSE (x2 - x1) * (y2 - y1)

\* _bbox_intersection -> (area, overlap_width, overlap_height)
BBoxIntersection(line_bbox, trigger_bbox) ==
    LET x1 == Max2(line_bbox[1], trigger_bbox[1])
        y1 == Max2(line_bbox[2], trigger_bbox[2])
        x2 == Min2(line_bbox[3], trigger_bbox[3])
        y2 == Min2(line_bbox[4], trigger_bbox[4])
    IN  IF x2 <= x1 \/ y2 <= y1
        THEN [area |-> 0, width |-> 0, height |-> 0]
        ELSE [area |-> (x2 - x1) * (y2 - y1), width |-> x2 - x1, height |-> y2 - y1]

\* A match test that accepts every non-empty intersection.
LineMatchesAnyIntersection(line_bbox, trigger_bbox, cfg) ==
    BBoxIntersection(line_bbox, trigger_bbox).area > 0

\* _line_matches_trigger; cfg.min_overlap_frac is the fraction num / den.
LineMatchesTrigger(line_bbox, trigger_bbox, cfg) ==
    LET inter == BBoxIntersection(line_bbox, trigger_bbox)
        line_area == Max2(1, (line_bbox[3] - line_bbox[1]) * (line_bbox[4] - line_bbox[2]))
    IN  IF inter.area <= 0 THEN FALSE
        ELSE IF inter.area * cfg.min_overlap_frac.den >= cfg.min_overlap_frac.num * line_area
        THEN TRUE
        ELSE inter.width >= cfg.min_x_overlap_px /\ inter.height > 0

\* abs(line centre - trigger centre), doubled.
CenterDistance(line_bbox, trigger_bbox) ==
    Abs((line_bbox[2] + line_bbox[4]) - (trigger_bbox[2] + trigger_bbox[4]))

\* min(indexes, key=distance): the first index of least distance.
NearestIndex(indexes, lines, trigger_bbox) ==
    CHOOSE i \in indexes :
        \A j \in indexes :
            \/ CenterDistance(lines[i].bbox, trigger_bbox)
                  < CenterDistance(lines[j].bbox, trigger_bbox)
            \/ /\ CenterDistance(lines[i].bbox, trigger_bbox)
                      = CenterDistance(lines[j].bbox, trigger_bbox)
               /\ i <= j

\* _select_line_indexes, as the ascending sequence of selected indexes (1-based).
SetToSortedSeq(S) ==
    [k \in 1..Cardinality(S) |-> CHOOSE i \in S : Cardinality({j \in S : j <= i}) = k]

\* A selection that never collapses the matched lines to the nearest one.
SelectLineIndexesNoCap(lines, trigger_bbox, cfg) ==
    LET overlaps == {i \in 1..Len(lines) : LineMatchesTrigger(lines[i].bbox, trigger_bbox, cfg)}
    IN  IF overlaps # {}
        THEN SetToSortedSeq(overlaps)
        ELSE <<NearestIndex(1..Len(lines), lines, trigger_bbox)>>

SelectLineIndexes(lines, trigger_bbox, cfg) ==
    LET overlaps == {i \in 1..Len(lines) : LineMatchesTrigger(lines[i].bbox, trigger_bbox, cfg)}
    IN  IF overlaps # {}
        THEN IF Cardinality(overlaps) > cfg.max_overlap_lines
             THEN <<NearestIndex(overlaps, lines, trigger_bbox)>>
             ELSE SetToSortedSeq(overlaps)
        ELSE <<NearestIndex(1..Len(lines), lines, trigger_bbox)>>

\* A raw span anchored at the lower median of the selected indexes.
RawSpanLowerMedian(page_no, lines, trigger_bbox, cfg) ==
    LET trigger_line_indexes == SelectLineIndexes(lines, trigger_bbox, cfg)
        anchor_idx == trigger_line_indexes[(Len(trigger_line_indexes) + 1) \div 2]
        start_idx == Max2(1, anchor_idx - cfg.k_before)
        end_idx == Min2(Len(lines), anchor_idx + cfg.k_after)
        selected == SubSeq(lines, start_idx, end_idx)
    IN  [page_num |-> page_no,
         line_ids |-> [i \in 1..Len(selected) |-> selected[i].line_id],
         trigger_bboxes |-> <<trigger_bbox>>,
         span_bbox |-> BBoxUnion([i \in 1..Len(selected) |-> selected[i].bbox])]

\* The raw span of one highlight candidate (run_make_spans, the loop body).
RawSpan(page_no, lines, trigger_bbox, cfg) ==
    LET trigger_line_indexes == SelectLineIndexes(lines, trigger_bbox, cfg)
        \* sorted(...)[len // 2], 0-based, is element len \div 2 + 1 here
        anchor_idx == trigger_line_indexes[(Len(trigger_line_indexes) \div 2) + 1]
        start_idx == Max2(1, anchor_idx - cfg.k_before)
        end_idx == Min2(Len(lines), anchor_idx + cfg.k_after)
        selected == SubSeq(lines, start_idx, end_idx)
    IN  [page_num |-> page_no,
         line_ids |-> [i \in 1..Len(selected) |-> selected[i].line_id],
         trigger_bboxes |-> <<trigger_bbox>>,
         span_bbox |-> BBoxUnion([i \in 1..Len(selected) |-> selected[i].bbox])]

\* One iteration of the loop of _merge_raw_spans over the dict deduped, kept as the
\* sequence of its values in insertion order.
MergeOne(deduped, span) ==
    IF \E i \in 1..Len(deduped) : deduped[i].line_ids = span.line_ids
    THEN LET i == CHOOSE k \in 1..Len(deduped) : deduped[k].line_ids = span.line_ids
         IN  [deduped EXCEPT
                ![i].trigger_bboxes = deduped[i].trigger_bboxes \o span.trigger_bboxes,
                ![i].span_bbox = BBoxUnion(<<deduped[i].span_bbox, span.span_bbox>>)]
    ELSE Append(deduped, span)

\* A merge that folds a span into the first kept span it shares a line with.
AbsorbOne(deduped, span) ==
    IF \E i \in 1..Len(deduped) : SeqRange(deduped[i].line_ids) \cap SeqRange(span.line_ids) # {}
    THEN LET i == CHOOSE k \in 1..Len(deduped) :
                    /\ SeqRange(deduped[k].line_ids) \cap SeqRange(span.line_ids) # {}
                    /\ \A m \in 1..(k - 1) :
                          SeqRange(deduped[m].line_ids) \cap SeqRange(span.line_ids) = {}
         IN  [deduped EXCEPT
                ![i].line_ids = deduped[i].line_ids
                    \o FilterSeq(span.line_ids, {n \in 1..Len(span.line_ids) :
                            span.line_ids[n] \notin SeqRange(deduped[i].line_ids)}),
                ![i].trigger_bboxes = deduped[i].trigger_bboxes \o span.trigger_bboxes,
                ![i].span_bbox = BBoxUnion(<<deduped[i].span_bbox, span.span_bbox>>)]
    ELSE Append(deduped, span)

RECURSIVE AbsorbFrom(_, _)
AbsorbFrom(deduped, raw_spans) ==
    IF raw_spans = <<>> THEN deduped
    ELSE AbsorbFrom(AbsorbOne(deduped, Head(raw_spans)), Tail(raw_spans))

MergeAbsorbingFirstHit(raw_spans) == AbsorbFrom(<<>>, raw_spans)

RECURSIVE MergeFrom(_, _)
MergeFrom(deduped, raw_spans) ==
    IF raw_spans = <<>> THEN deduped
    ELSE MergeFrom(MergeOne(deduped, Head(raw_spans)), Tail(raw_spans))

\* _merge_raw_spans
MergeRawSpans(raw_spans) == MergeFrom(<<>>, raw_spans)

\* f"p{page_num}_s{span_idx}"
SpanId(page, index) == <<"p">> \o IntToStr(page) \o <<"_", "s">> \o IntToStr(index)

\* The Span objects run_make_spans builds from the merged raw spans of a page.
MakeSpans(page_no, lines, candidates, cfg) ==
    LET raw_spans == [i \in 1..Len(candidates) |-> RawSpan(page_no, lines, candidates[i], cfg)]
        merged == MergeRawSpans(raw_spans)
    IN  [i \in 1..Len(merged) |->
            [span_id |-> SpanId(page_no, i),
             page_num |-> page_no,
             line_ids |-> merged[i].line_ids,
             trigger_bboxes |-> merged[i].trigger_bboxes,
             span_bbox |-> merged[i].span_bbox]]

-----------------------------------------------------------------------------
(* run_make_spans over the pages of a run *)

MaxSpanPages == 1

MaxTriggers == 3

\* The "lines" of a canonical page record: five stacked lines, as run_ocr numbers them.
StackedLines(page_no) ==
    [i \in 1..5 |-> [line_id |-> LineId(page_no, i),
                     bbox |-> <<100, 10 + 30 * (i - 1), 500, 30 + 30 * (i - 1)>>]]

\* page_map.get(page_num): no record, a record without lines, or a page of text.
PageRecordsFor(page_no) ==
    {None, Some([lines |-> <<>>]), Some([lines |-> StackedLines(page_no)])}

\* Highlight boxes: on the first line, across the first two lines, and two thin
\* vertical stripes over the page height (beside the text and through it).
TriggerPool ==
    {<<120, 12, 300, 28>>,
     <<120, 20, 300, 50>>,
     <<0, 0, 12, 200>>,
     <<110, 0, 118, 200>>}

TriggerLists == UNION {[1..n -> TriggerPool] : n \in 0..MaxTriggers}

\* k_before / k_after from the command line or the pipeline config; the other
\* thresholds at their defaults.
SpanConfigs ==
    {[k_before |-> k[1], k_after |-> k[2],
      min_overlap_frac |-> [num |-> 2, den |-> 100],
      min_x_overlap_px |-> 40,
      max_overlap_lines |-> 8] : k \in {<<2, 2>>, <<1, 1>>, <<0, 0>>}}

InitSpans ==
    /\ pc = "spans"
    /\ printed_page_mode = "auto"
    /\ page_num = 0
    /\ arabic_switch_min = 10
    /\ printed_page_detect = TRUE
    /\ raw_results = <<>>
    /\ page_records = <<>>
    /\ call = Idle
    /\ detect = Idle
    /\ \E cfg \in SpanConfigs :
          make_spans = [cfg |-> cfg, page_index |-> 0, processed |-> 0,
                        page |-> None, candidates |-> <<>>,
                        raw_spans |-> <<>>, spans_json |-> None]

\* One iteration of the page loop of run_make_spans: a page without a canonical
\* record or without lines is skipped, otherwise spans.json is written.
MakeSpansPage ==
    /\ pc = "spans"
    /\ make_spans.page_index < MaxSpanPages
    /\ LET page_no == make_spans.page_index + 1
       IN  \E page \in PageRecordsFor(page_no) :
              IF page = None \/ Get(page).lines = <<>>
              THEN make_spans' = [make_spans EXCEPT
                                    !.page_index = page_no,
                                    !.page = page,
                                    !.candidates = <<>>,
                                    !.raw_spans = <<>>,
                                    !.spans_json = None]
              ELSE \E candidates \in TriggerLists :
                   make_spans' = [make_spans EXCEPT
                                    !.page_index = page_no,
                                    !.processed = @ + 1,
                                    !.page = page,
                                    !.candidates = candidates,
                                    !.raw_spans =
                                        [i \in 1..Len(candidates) |->
                                            RawSpan(page_no, Get(page).lines, candidates[i],
                                                    make_spans.cfg)],
                                    !.spans_json =
                                        Some([page_num |-> page_no,
                                              k_before |-> make_spans.cfg.k_before,
                                              k_after |-> make_spans.cfg.k_after,
                                              spans |-> MakeSpans(page_no, Get(page).lines,
                                                                  candidates, make_spans.cfg)])]
    /\ UNCHANGED <<pc, printed_page_mode, page_num, arabic_switch_min, printed_page_detect,
                   raw_results, page_records, call, detect>>

NextSpans == MakeSpansPage

SpecSpans == InitSpans /\ [][NextSpans]_vars

\* The spans written for the page processed last.
OutSpans == Get(make_spans.spans_json).spans

\* The partition a span list induces: its set of line-id groupings.
Groupings(spans) == {SeqRange(spans[i].line_ids) : i \in 1..Len(spans)}

\* C4 (as claimed): no line identifier appears in two different spans of a page's output.
C4_NoLineInTwoSpans ==
    make_spans.spans_json # None =>
        \A i, j \in 1..Len(OutSpans) :
            i # j => SeqRange(OutSpans[i].line_ids) \cap SeqRange(OutSpans[j].line_ids) = {}

\* C5 (as claimed): no two spans of the merged output have overlapping bounding boxes.
C5_NoOverlappingSpanBoxes ==
    make_spans.spans_json # None =>
        \A i, j \in 1..Len(OutSpans) :
            i # j => BBoxOverlap(OutSpans[i].span_bbox, OutSpans[j].span_bbox) = 0

\* C6: merging the merged spans again gives the same set of line-id groupings.
C6_MergeIdempotent ==
    Groupings(MergeRawSpans(MergeRawSpans(make_spans.raw_spans)))
        = Groupings(MergeRawSpans(make_spans.raw_spans))

\* A page whose raw spans were really merged: fewer spans than highlights, and more than one.
C6_Witness ==
    /\ make_spans.spans_json # None
    /\ Len(OutSpans) >= 2
    /\ Len(OutSpans) < Len(make_spans.raw_spans)

Reorder(seq, perm) == [i \in 1..Len(seq) |-> seq[perm[i]]]

\* C7: every ordering of the page's raw spans merges to the same set of line-id groupings.
C7_MergeOrderIndependent ==
    \A perm \in Permutations(1..Len(make_spans.raw_spans)) :
        Groupings(MergeRawSpans(Reorder(make_spans.raw_spans, perm)))
            = Groupings(MergeRawSpans(make_spans.raw_spans))

\* Three highlights with two distinct line windows, where another ordering changes
\* the numbering of the merged spans.
C7_Witness ==
    /\ make_spans.spans_json # None
    /\ Len(make_spans.raw_spans) = 3
    /\ Len(OutSpans) = 2
    /\ \E perm \in Permutations(1..3) :
          MergeRawSpans(Reorder(make_spans.raw_spans, perm))[1].line_ids # OutSpans[1].line_ids

-----------------------------------------------------------------------------
(* ocr.py: _group_lines *)

\* _y_center, doubled: y1 + y2.
YCenterNum(bbox) == bbox[2] + bbox[4]

\* A key that leaves the words in the order of the list.
WordOrderCompareUnsorted(w1, w2) == 0

\* sorted(words, key=lambda w: (_y_center(w.bbox), w.bbox[0]))
WordOrderCompare(w1, w2) ==
    FirstNonZero(<<IntCompare(YCenterNum(w1.bbox), YCenterNum(w2.bbox)),
                   IntCompare(w1.bbox[1], w2.bbox[1])>>)

RECURSIVE SumSeq(_)
SumSeq(s) == IF s = <<>> THEN 0 ELSE Head(s) + SumSeq(Tail(s))

\* A cluster keeps its words; its center_y is the mean of their centres, that is
\* ClusterSum / (2 * Len(words)).
ClusterSum(cluster) == SumSeq([i \in 1..Len(cluster) |-> YCenterNum(cluster[i].bbox)])

\* A tolerance that excludes the distance y_tolerance_px itself.
WithinToleranceStrict(word, cluster, y_tolerance_px) ==
    Abs(YCenterNum(word.bbox) * Len(cluster) - ClusterSum(cluster))
        < 2 * Len(cluster) * y_tolerance_px

\* abs(center_y - cluster["center_y"]) <= y_tolerance_px
WithinTolerance(word, cluster, y_tolerance_px) ==
    Abs(YCenterNum(word.bbox) * Len(cluster) - ClusterSum(cluster))
        <= 2 * Len(cluster) * y_tolerance_px

\* The loop body for one word: join the first cluster within tolerance, else open one.
PlaceWord(clusters, word, y_tolerance_px) ==
    LET hits == {i \in 1..Len(clusters) : WithinTolerance(word, clusters[i], y_tolerance_px)}
    IN  IF hits # {}
        THEN [clusters EXCEPT ![SetMin(hits)] = Append(@, word)]
        ELSE Append(clusters, <<word>>)

RECURSIVE PlaceWords(_, _, _)
PlaceWords(clusters, words, y_tolerance_px) ==
    IF words = <<>> THEN clusters
    ELSE PlaceWords(PlaceWord(clusters, Head(words), y_tolerance_px), Tail(words),
                    y_tolerance_px)

\* clusters.sort(key=lambda c: c["center_y"])
ClusterCompare(c1, c2) == IntCompare(ClusterSum(c1) * Len(c2), ClusterSum(c2) * Len(c1))

\* sorted(cluster["words"], key=lambda w: w.bbox[0])
LeftEdgeCompare(w1, w2) == IntCompare(w1.bbox[1], w2.bbox[1])

\* _group_lines(words, page_num, y_tolerance_px)
GroupLines(words, page_no, y_tolerance_px) ==
    IF words = <<>> THEN <<>>
    ELSE LET sorted_words == StableSort(words,
                    [i \in 1..Len(words) |-> [j \in 1..Len(words) |->
                        WordOrderCompare(words[i], words[j])]])
             placed == PlaceWords(<<>>, sorted_words, y_tolerance_px)
             clusters == StableSort(placed,
                    [i \in 1..Len(placed) |-> [j \in 1..Len(placed) |->
                        ClusterCompare(placed[i], placed[j])]])
             by_left(ws) == StableSort(ws,
                    [i \in 1..Len(ws) |-> [j \in 1..Len(ws) |->
                        LeftEdgeCompare(ws[i], ws[j])]])
         IN  [index \in 1..Len(clusters) |->
                MkLine(LineId(page_no, index), by_left(clusters[index]))]

-----------------------------------------------------------------------------
(* ocr.py: run_ocr, the page loop of one book *)

MaxOcrPages == 3

\* What _extract_words reports for the scans of a book, with the scan's file name.
OcrImages ==
    {[name |-> <<"a", "_", "R", ".", "p", "n", "g">>,
      words |-> <<W(Txiv, <<86, 2, 96, 10>>, 95)>>],
     [name |-> <<"a", "_", "L", ".", "p", "n", "g">>,
      words |-> <<W(T7, <<4, 2, 14, 10>>, 90)>>],
     [name |-> <<"a", "_", "R", ".", "p", "n", "g">>,
      words |-> <<W(T14, <<86, 2, 96, 10>>, 90), W(Tm, <<4, 20, 14, 30>>, 95)>>],
     [name |-> <<"a", ".", "p", "n", "g">>,
      words |-> <<>>],
     [name |-> <<"a", ".", "p", "n", "g">>,
      words |-> <<W(Txiv, <<4, 2, 14, 10>>, 40), W(T14, <<86, 2, 96, 10>>, 39)>>]}

\* int(ocr_cfg.get("line_y_tolerance_px", 14))
LineYTolerancePx == 14

\* The page record appended to page_records, with the three printed_page fields.
PageRecord(page_no, lines, printed_page, printed_page_text, printed_page_kind) ==
    [page_num |-> page_no, lines |-> lines,
     printed_page |-> printed_page,
     printed_page_text |-> printed_page_text,
     printed_page_kind |-> printed_page_kind]

\* What one turn of the loop leaves behind, given the raw detection and its applied
\* form: without detection the fields stay None, "None" and the mode is untouched.
OcrPageOutcome(page_no, lines, raw, applied, mode, detect_enabled) ==
    IF detect_enabled
    THEN [raw |-> Some(raw.result),
          record |-> PageRecord(page_no, lines, applied.applied.printed_page,
                                applied.applied.printed_page_text,
                                applied.applied.printed_page_kind),
          mode |-> applied.next_mode]
    ELSE [raw |-> None,
          record |-> PageRecord(page_no, lines, None, None, "None"),
          mode |-> mode]

InitOcr ==
    /\ pc = "ocr"
    /\ printed_page_mode = "auto"
    /\ page_num = 0
    /\ arabic_switch_min \in {0, 10, 15}
    /\ printed_page_detect \in BOOLEAN
    /\ raw_results = <<>>
    /\ page_records = <<>>
    /\ call = Idle
    /\ make_spans = Idle
    /\ detect = Idle

\* for page_num, image_path in enumerate(image_paths, start=1): cluster the words
\* into lines, detect the printed page number, apply the running mode and append
\* the page record.
RunOcrPage ==
    /\ pc = "ocr"
    /\ page_num < MaxOcrPages
    /\ \E image \in OcrImages :
       \E lines \in {GroupLines(image.words, page_num + 1, LineYTolerancePx)} :
       \E raw \in {DetectPrintedPage(
                       [scan_relpath |-> image.name, words |-> image.words,
                        lines |-> lines],
                       DetectArgs(infer_scan_side(image.name), FALSE))} :
       \E applied \in {ApplyPrintedPageMode(
                           raw.result,
                           IF printed_page_mode = "arabic" THEN "arabic" ELSE "auto",
                           arabic_switch_min)} :
       \E r \in {OcrPageOutcome(page_num + 1, lines, raw, applied, printed_page_mode,
                                printed_page_detect)} :
          /\ raw_results' = Append(raw_results, r.raw)
          /\ page_records' = Append(page_records, r.record)
          /\ printed_page_mode' = r.mode
    /\ page_num' = page_num + 1
    /\ UNCHANGED <<pc, arabic_switch_min, printed_page_detect, call, make_spans, detect>>

\* After the last page: pages.jsonl is written from page_records.
RunOcrFinish ==
    /\ pc = "ocr"
    /\ page_num >= 1
    /\ pc' = "ocr_done"
    /\ UNCHANGED <<printed_page_mode, page_num, arabic_switch_min, printed_page_detect,
                   raw_results, page_records, call, make_spans, detect>>

NextOcr == RunOcrPage \/ RunOcrFinish

SpecOcr == InitOcr /\ [][NextOcr]_vars

\* A raw detection that trips the latch: kind arabic with value >= arabic_switch_min.
Latches(raw) ==
    /\ raw # None
    /\ Get(raw).printed_page_kind = "arabic"
    /\ Get(Get(raw).printed_page) >= arabic_switch_min

PrintedTriple(record) ==
    [printed_page |-> record.printed_page,
     printed_page_text |-> record.printed_page_text,
     printed_page_kind |-> record.printed_page_kind]

\* C3: the mode starts auto and pages are taken in ascending page number; after page
\* N the mode is arabic exactly when a page i <= N had a raw arabic detection with
\* value >= arabic_switch_min; page N is suppressed exactly when its raw kind is
\* roman and a page before N tripped the latch, and otherwise keeps its raw result.
C3_LatchFollowsEarlierPages ==
    /\ page_num = 0 => printed_page_mode = "auto"
    /\ Len(page_records) = page_num /\ Len(raw_results) = page_num
    /\ \A n \in 1..Len(page_records) : page_records[n].page_num = n
    /\ printed_page_mode = "arabic" <=> \E i \in 1..Len(raw_results) : Latches(raw_results[i])
    /\ printed_page_mode \in {"auto", "arabic"}
    /\ \A n \in 1..Len(page_records) :
          raw_results[n] # None =>
              PrintedTriple(page_records[n]) =
                  IF /\ Get(raw_results[n]).printed_page_kind = "roman"
                     /\ \E i \in 1..(n - 1) : Latches(raw_results[i])
                  THEN NoResult
                  ELSE Get(raw_results[n])

\* A roman page kept, then the page that trips the latch keeping its arabic result,
\* then a roman page suppressed.
C3_Witness ==
    /\ Len(page_records) = 3
    /\ page_records[1].printed_page_kind = "roman"
    /\ Latches(raw_results[2]) /\ page_records[2].printed_page_kind = "arabic"
    /\ Get(raw_results[3]).printed_page_kind = "roman"
    /\ PrintedTriple(page_records[3]) = NoResult

-----------------------------------------------------------------------------
(* page_numbers.py: detect_printed_page called several times in one process *)

MaxDetectCalls == 3

\* Pages and keyword arguments of the repeated calls.
DetectLogWords ==
    {<<W(T14, <<4, 2, 14, 10>>, 90), W(T14, <<86, 2, 96, 10>>, 90)>>,
     <<W(Txiv, <<86, 2, 96, 10>>, 95), W(Txiv, <<4, 2, 14, 10>>, 40)>>,
     <<W(Tm, <<86, 2, 96, 10>>, 95)>>}

DetectLogInputs ==
    {[page |-> [scan_relpath |-> <<"s", ".", "p", "n", "g">>, words |-> words,
                lines |-> LinesOf(words, layout)],
      args |-> DetectArgs(infer_scan_side(<<"s", ".", "p", "n", "g">>), debug)] :
        words \in DetectLogWords, layout \in {"each", "last_blank_id"}, debug \in BOOLEAN}

InitDetectLog ==
    /\ pc = "detect_log"
    /\ printed_page_mode = "auto"
    /\ page_num = 0
    /\ arabic_switch_min = 10
    /\ printed_page_detect = TRUE
    /\ raw_results = <<>>
    /\ page_records = <<>>
    /\ call = Idle
    /\ make_spans = Idle
    /\ detect = [log |-> <<>>]

\* One more call of detect_printed_page in the same process; page_num counts the
\* calls made so far and the log keeps each call's arguments and return value.
DetectLogCall ==
    /\ pc = "detect_log"
    /\ page_num < MaxDetectCalls
    /\ \E input \in DetectLogInputs :
       \E out \in {DetectPrintedPage(input.page, input.args)} :
          detect' = [log |-> Append(detect.log,
                                    [page |-> input.page, args |-> input.args, out |-> out])]
    /\ page_num' = page_num + 1
    /\ UNCHANGED <<pc, printed_page_mode, arabic_switch_min, printed_page_detect,
                   raw_results, page_records, call, make_spans>>

NextDetectLog == DetectLogCall

SpecDetectLog == InitDetectLog /\ [][NextDetectLog]_vars

-----------------------------------------------------------------------------
(* page_numbers.py: the per-class filters of detect_printed_page *)

MaxFilterWords == 2

\* Tokens around every threshold of the two filters, all in the top band.
FilterWordPool ==
    {W(T14, <<4, 2, 14, 10>>, 90),
     W(T14, <<86, 2, 96, 10>>, 39),                           \* below min_conf
     W(<<"1", "2", "3", "4", "5">>, <<86, 2, 96, 10>>, 95),    \* five digits
     W(Txiv, <<86, 2, 96, 10>>, 40),                           \* exactly min_conf
     W(Txiv, <<4, 2, 14, 10>>, 39),
     W(Tm, <<86, 2, 96, 10>>, 95),                             \* one letter, 1000
     W(<<"v">>, <<4, 2, 14, 10>>, 95),                         \* one letter, 5
     W(<<"x", "c">>, <<86, 2, 96, 10>>, 95),                   \* 90 > roman_max_value
     W(<<"V", "i", ".">>, <<4, 4, 14, 12>>, 95),               \* normalizes to vi
     W(<<"x", "l", "i", "v">>, <<86, 4, 96, 12>>, 95),         \* 44: xl and iv
     W(<<"i", "x", "i", "v">>, <<86, 4, 96, 12>>, 95)}         \* ix and iv in one place

FilterWordLists == UNION {[1..n -> FilterWordPool] : n \in 0..MaxFilterWords}

InitDetectFilter ==
    /\ pc = "detect"
    /\ printed_page_mode = "auto"
    /\ page_num = 0
    /\ arabic_switch_min = 10
    /\ printed_page_detect = TRUE
    /\ raw_results = <<>>
    /\ page_records = <<>>
    /\ call = Idle
    /\ make_spans = Idle
    /\ \E words \in FilterWordLists, layout \in {"none", "last"}, min_len \in {1, 2} :
          detect = [page |-> [scan_relpath |-> <<"s", ".", "p", "n", "g">>,
                              words |-> words, lines |-> LinesOf(words, layout)],
                    args |-> [DetectArgs(infer_scan_side(<<"s", ".", "p", "n", "g">>), TRUE)
                                EXCEPT !.roman_min_len = min_len],
                    out |-> None]

SpecDetectFilter == InitDetectFilter /\ [][NextDetect]_vars

\* The value of a string of decimal digits, most significant digit first.
RECURSIVE DecimalValue(_)
DecimalValue(text) ==
    IF text = <<>> THEN 0
    ELSE DigitValue(Head(text)) * 10 ^ (Len(text) - 1) + DecimalValue(Tail(text))

\* C12: the selected candidate has confidence >= min_conf; an arabic selection is a
\* token of 1 to 4 digits and printed_page is its integer value; a roman selection
\* has at least roman_min_len normalized letters, decodes to a value <=
\* roman_max_value and printed_page is that value; with roman_min_len = 2 a one
\* letter token such as m is never selected.
C12_SelectedPassesFilters ==
    (detect.out # None /\ DetectOut.result.printed_page_kind # "None") =>
        LET r == DetectOut.result
            sel == Get(DetectOut.debug_payload.selected)
            letters == normalize_roman(sel.text)
        IN  /\ sel.conf >= detect.args.min_conf
            /\ r.printed_page_text = Some(sel.text)
            /\ r.printed_page_kind = "arabic" =>
                  /\ IsShortNumber(sel.text)
                  /\ r.printed_page = Some(DecimalValue(sel.text))
            /\ r.printed_page_kind = "roman" =>
                  /\ Len(letters) >= detect.args.roman_min_len
                  /\ roman_to_int(sel.text) # None
                  /\ Get(roman_to_int(sel.text)) <= detect.args.roman_max_value
                  /\ r.printed_page = roman_to_int(sel.text)
                  /\ detect.args.roman_min_len = 2 => Len(letters) # 1

\* With roman_min_len = 2 a page holding a confident one-letter v and the token
\* "Vi." yields the roman page 6, the value of the normalized letters vi.
C12_Witness ==
    /\ detect.out # None
    /\ detect.args.roman_min_len = 2
    /\ \E i \in 1..Len(detect.page.words) :
          detect.page.words[i].text = <<"v">> /\ detect.page.words[i].confidence = 95
    /\ DetectOut.result.printed_page_kind = "roman"
    /\ DetectOut.result.printed_page = Some(6)
    /\ DetectOut.result.printed_page_text = Some(<<"V", "i", ".">>)

-----------------------------------------------------------------------------
(* page_numbers.py: roman_to_int on arbitrary strings *)

MaxRomanLen == 4

\* The seven roman letters, an upper-case letter and a character that is dropped.
RomanAlphabet == {"i", "v", "x", "l", "c", "d", "m", "X", "."}

RomanInputs == UNION {[1..n -> RomanAlphabet] : n \in 0..MaxRomanLen}

InitRoman ==
    /\ pc = "roman"
    /\ printed_page_mode = "auto"
    /\ page_num = 0
    /\ arabic_switch_min = 10
    /\ printed_page_detect = TRUE
    /\ raw_results = <<>>
    /\ page_records = <<>>
    /\ \E s \in RomanInputs : call = [s |-> s, done |-> FALSE, value |-> None]
    /\ make_spans = Idle
    /\ detect = Idle

\* value = roman_to_int(s)
RomanCall ==
    /\ pc = "roman"
    /\ ~call.done
    /\ call' = [call EXCEPT !.done = TRUE, !.value = roman_to_int(call.s)]
    /\ pc' = "roman_done"
    /\ UNCHANGED <<printed_page_mode, page_num, arabic_switch_min, printed_page_detect,
                   raw_results, page_records, make_spans, detect>>

NextRoman == RomanCall

SpecRoman == InitRoman /\ [][NextRoman]_vars

\* The numeral of one decimal digit d written with the letters for 1, 5 and 10 of
\* its place.
PlaceNumeral(d, one, five, ten) ==
    IF d <= 3 THEN Rep(one, d)
    ELSE IF d = 4 THEN <<one, five>>
    ELSE IF d <= 8 THEN <<five>> \o Rep(one, d - 5)
    ELSE <<one, ten>>

\* The standard numeral of v, 1 <= v <= 4999.
StandardNumeral(v) ==
    Rep("m", v \div 1000)
        \o PlaceNumeral((v \div 100) % 10, "c", "d", "m")
        \o PlaceNumeral((v \div 10) % 10, "x", "l", "c")
        \o PlaceNumeral(v % 10, "i", "v", "x")

StandardNumerals == {StandardNumeral(v) : v \in 1..4999}

\* The roman letters of s: case folded, every other character dropped.
RomanLetters(s) == SelectSeq(Lower(s), LAMBDA ch : ch \in ROMAN_CHARS)

\* C13: roman_to_int returns a value exactly when the roman letters of its input
\* (case folded, other characters dropped) are a numeral of the strict grammar, and
\* the value is the numeral's standard value; iix, vx and inputs without a roman
\* letter give none.
C13_RomanToIntStandardValue ==
    call.done =>
        IF RomanLetters(call.s) \in StandardNumerals
        THEN /\ call.value # None
             /\ StandardNumeral(Get(call.value)) = RomanLetters(call.s)
        ELSE call.value = None

\* Upper case and a dropped character in a numeral that decodes to 14.
C13_Witness ==
    /\ call.done
    /\ call.s = <<"X", ".", "i", "v">>
    /\ call.value = Some(14)

\* The positions of the normalized letters n where one of the given subtractive
\* pairs starts.
PairPositions(n, pairs) == {p \in 1..(Len(n) - 1) : <<n[p], n[p + 1]>> \in pairs}

AcceptedRomanLetters ==
    {normalize_roman(RomanCandidates(detect.page, detect.args)[i].text) :
        i \in 1..Len(RomanCandidates(detect.page, detect.args))}

\* C14 as claimed: every token accepted on the roman path has at most one
\* subtractive pair (iv, ix, xl, xc, cd, cm) in its normalized letters.
C14_AtMostOneSubtractivePair ==
    detect.out # None =>
        \A n \in AcceptedRomanLetters : Cardinality(PairPositions(n, ROMAN_SUBTRACTIVES)) <= 1

\* C14 as the code has it: every token accepted on the roman path has at most one
\* subtractive pair in each decimal place (cm or cd, xc or xl, ix or iv), so a
\* numeral such as xliv with one pair in the tens and one in the ones is accepted.
C14_AtMostOnePairPerPlace ==
    detect.out # None =>
        \A n \in AcceptedRomanLetters :
            /\ Cardinality(PairPositions(n, {<<"c", "m">>, <<"c", "d">>})) <= 1
            /\ Cardinality(PairPositions(n, {<<"x", "c">>, <<"x", "l">>})) <= 1
            /\ Cardinality(PairPositions(n, {<<"i", "x">>, <<"i", "v">>})) <= 1

\* xliv is selected as the roman page 44 while ixiv on the same page is not a
\* roman candidate.
C14_Witness ==
    /\ detect.out # None
    /\ DetectOut.result.printed_page_kind = "roman"
    /\ DetectOut.result.printed_page = Some(44)
    /\ DetectOut.result.printed_page_text = Some(<<"x", "l", "i", "v">>)
    /\ \E i \in 1..Len(detect.page.words) :
          detect.page.words[i].text = <<"i", "x", "i", "v">>
    /\ <<"i", "x", "i", "v">> \notin AcceptedRomanLetters

-----------------------------------------------------------------------------
(* ocr.py: _group_lines on arbitrary word lists and tolerances *)

MaxGroupWords == 3

\* Word boxes of different heights: two words with the same vertical centre, a
\* tall box whose centre lies between its neighbours', and words one tolerance apart.
GroupWordPool ==
    {W(<<"a">>, <<10, 99, 20, 101>>, 90),      \* centre 100
     W(<<"e">>, <<90, 98, 100, 102>>, 90),     \* centre 100
     W(<<"b">>, <<30, 10, 40, 210>>, 90),      \* centre 110, tall
     W(<<"c">>, <<50, 113, 60, 115>>, 90),     \* centre 114
     W(<<"d">>, <<70, 119, 80, 121>>, 90),     \* centre 120
     W(<<"f">>, <<5, 128, 15, 130>>, 90)}      \* centre 129

GroupWordLists == UNION {[1..n -> GroupWordPool] : n \in 0..MaxGroupWords}

\* int(ocr_cfg.get("line_y_tolerance_px", 14)): any integer of the configuration.
GroupTolerances == {-1, 0, 14}

InitGroup ==
    /\ pc = "group"
    /\ printed_page_mode = "auto"
    /\ page_num = 0
    /\ arabic_switch_min = 10
    /\ printed_page_detect = TRUE
    /\ raw_results = <<>>
    /\ page_records = <<>>
    /\ \E words \in GroupWordLists, tol \in GroupTolerances :
          call = [words |-> words, y_tolerance_px |-> tol, done |-> FALSE, lines |-> <<>>]
    /\ make_spans = Idle
    /\ detect = Idle

\* lines = _group_lines(words, page_num, y_tolerance_px)
GroupCall ==
    /\ pc = "group"
    /\ ~call.done
    /\ call' = [call EXCEPT !.done = TRUE,
                            !.lines = GroupLines(call.words, 1, call.y_tolerance_px)]
    /\ pc' = "group_done"
    /\ UNCHANGED <<printed_page_mode, page_num, arabic_switch_min, printed_page_detect,
                   raw_results, page_records, make_spans, detect>>

NextGroup == GroupCall

SpecGroup == InitGroup /\ [][NextGroup]_vars

\* The box of the line is the smallest box around the boxes of its words.
BoxIsUnionOfWords(line) ==
    /\ line.words # <<>>
    /\ \A k \in 1..2 :
          /\ \E i \in 1..Len(line.words) : line.bbox[k] = line.words[i].bbox[k]
          /\ \A i \in 1..Len(line.words) : line.bbox[k] <= line.words[i].bbox[k]
    /\ \A k \in 3..4 :
          /\ \E i \in 1..Len(line.words) : line.bbox[k] = line.words[i].bbox[k]
          /\ \A i \in 1..Len(line.words) : line.bbox[k] >= line.words[i].bbox[k]

\* Twice the vertical centre of the line's box.
LineBoxCentre(line) == line.bbox[2] + line.bbox[4]

\* The sum of the doubled vertical centres of the line's words; the mean centre of
\* the line is this sum over 2 * Len(line.words).
LineCentreSum(line) ==
    LET Sum[i \in 0..Len(line.words)] ==
            IF i = 0 THEN 0
            ELSE Sum[i - 1] + line.words[i].bbox[2] + line.words[i].bbox[4]
    IN  Sum[Len(line.words)]

\* Every line box is the union of its words' boxes and the lines are strictly
\* ascending in vertical centre, by the centre of the box and by the mean centre.
LinesWellFormed(lines) ==
    /\ \A n \in 1..Len(lines) : BoxIsUnionOfWords(lines[n])
    /\ \A n \in 1..(Len(lines) - 1) :
          /\ LineBoxCentre(lines[n]) < LineBoxCentre(lines[n + 1])
          /\ LineCentreSum(lines[n]) * Len(lines[n + 1].words)
                < LineCentreSum(lines[n + 1]) * Len(lines[n].words)

-----------------------------------------------------------------------------
(* spans.py: _select_line_indexes on its own *)

MaxSelectLines == 5

\* The first n of the stacked lines of test_spans.py, boxes [100, y, 500, y + 20].
SelectLines(n) ==
    [i \in 1..n |-> [line_id |-> LineId(1, i),
                     bbox |-> <<100, 10 + 30 * (i - 1), 500, 30 + 30 * (i - 1)>>]]

SelectTriggers ==
    {<<120, 12, 300, 28>>,      \* on the first line
     <<120, 20, 300, 50>>,      \* across the first two lines
     <<120, 0, 300, 200>>,      \* a wide box over every line
     <<120, 32, 300, 38>>,      \* in the gap between the first two lines
     <<600, 130, 700, 150>>,    \* right of the text
     <<0, 0, 12, 200>>,         \* the stripe of test_spans.py, beside the text
     <<200, 0, 212, 200>>,      \* the same stripe across the text
     <<90, 0, 102, 200>>,       \* the same stripe, 2 px into the text
     <<96, 0, 108, 200>>,       \* the same stripe, 8 px into the text
     <<200, 0, 204, 200>>}      \* a 4 px stripe across the text

SelectConfigs ==
    {[min_overlap_frac |-> frac, min_x_overlap_px |-> min_x, max_overlap_lines |-> cap] :
        frac \in {[num |-> 2, den |-> 100], [num |-> 1, den |-> 2]},
        min_x \in {40, 1000},
        cap \in {0, 1, 2, 8}}

InitSelect ==
    /\ pc = "select"
    /\ printed_page_mode = "auto"
    /\ page_num = 0
    /\ arabic_switch_min = 10
    /\ printed_page_detect = TRUE
    /\ raw_results = <<>>
    /\ page_records = <<>>
    /\ \E n \in 1..MaxSelectLines, trigger_bbox \in SelectTriggers, cfg \in SelectConfigs :
          call = [lines |-> SelectLines(n), trigger_bbox |-> trigger_bbox, cfg |-> cfg,
                  done |-> FALSE, indexes |-> <<>>]
    /\ make_spans = Idle
    /\ detect = Idle

\* indexes = _select_line_indexes(lines, trigger_bbox, **cfg)
SelectCall ==
    /\ pc = "select"
    /\ ~call.done
    /\ call' = [call EXCEPT !.done = TRUE,
                            !.indexes = SelectLineIndexes(call.lines, call.trigger_bbox,
                                                          call.cfg)]
    /\ pc' = "select_done"
    /\ UNCHANGED <<printed_page_mode, page_num, arabic_switch_min, printed_page_detect,
                   raw_results, page_records, make_spans, detect>>

NextSelect == SelectCall

SpecSelect == InitSelect /\ [][NextSelect]_vars

\* Width and height of the intersection of two boxes (not positive when empty).
OverlapWidth(a, b) == Min2(a[3], b[3]) - Max2(a[1], b[1])

OverlapHeight(a, b) == Min2(a[4], b[4]) - Max2(a[2], b[2])

\* The lines matched by the trigger: a non-empty intersection that covers at least
\* min_overlap_frac of the line's area or is at least min_x_overlap_px wide.
MatchedLines ==
    {i \in 1..Len(call.lines) :
        LET line == call.lines[i].bbox
            w == OverlapWidth(line, call.trigger_bbox)
            h == OverlapHeight(line, call.trigger_bbox)
        IN  /\ w > 0 /\ h > 0
            /\ \/ w * h * call.cfg.min_overlap_frac.den
                     >= call.cfg.min_overlap_frac.num
                            * (line[3] - line[1]) * (line[4] - line[2])
               \/ w >= call.cfg.min_x_overlap_px}

\* Twice the distance between the vertical centres of line i and of the trigger.
CentreGap(i) ==
    Abs(call.lines[i].bbox[2] + call.lines[i].bbox[4]
            - call.trigger_bbox[2] - call.trigger_bbox[4])

\* The selection is the single index i, a line of S nearest the trigger.
SingleNearestOf(S) ==
    /\ Len(call.indexes) = 1
    /\ call.indexes[1] \in S
    /\ \A j \in S : CentreGap(call.indexes[1]) <= CentreGap(j)

\* C16: on a non-empty line list the selection is never empty: the matched lines in
\* page order when there are between 1 and max_overlap_lines of them, otherwise the
\* single line nearest the trigger's vertical centre, among the matched lines when
\* the cap is exceeded and among all lines when none matched.
C16_SelectionNeverEmpty ==
    call.done =>
        /\ Len(call.indexes) >= 1
        /\ IF MatchedLines # {} /\ Cardinality(MatchedLines) <= call.cfg.max_overlap_lines
           THEN /\ SeqRange(call.indexes) = MatchedLines
                /\ Len(call.indexes) = Cardinality(MatchedLines)
                /\ \A k \in 1..(Len(call.indexes) - 1) : call.indexes[k] < call.indexes[k + 1]
           ELSE IF MatchedLines # {}
           THEN SingleNearestOf(MatchedLines)
           ELSE SingleNearestOf(1..Len(call.lines))

\* Five lines matched under a cap of 2 collapse to the one nearest the trigger.
C16_Witness ==
    /\ call.done
    /\ Cardinality(MatchedLines) = 5
    /\ call.cfg.max_overlap_lines = 2
    /\ call.indexes = <<4>>

\* A thin vertical stripe over the page height against the five stacked lines under
\* the default thresholds.
StripeCase ==
    /\ call.done
    /\ Len(call.lines) = 5
    /\ call.cfg = [min_overlap_frac |-> [num |-> 2, den |-> 100],
                   min_x_overlap_px |-> 40, max_overlap_lines |-> 8]
    /\ call.trigger_bbox[2] = 0 /\ call.trigger_bbox[4] = 200
    /\ call.trigger_bbox[3] - call.trigger_bbox[1] <= 12

\* C17 as claimed: at any horizontal position the stripe selects exactly one line,
\* the nearest, and never all five.
C17_StripeSelectsOneLine ==
    StripeCase => SingleNearestOf(1..5)

\* C17 as the code has it: the stripe selects exactly one line, the nearest,
\* wherever it overlaps the 400 px wide lines by less than 2 percent of their width
\* (8 px); a stripe that overlaps them by more matches all five lines and all five
\* are selected.
C17_StripeSelectsOneLineUnlessAcross ==
    StripeCase =>
        IF OverlapWidth(call.lines[1].bbox, call.trigger_bbox) * 100 < 2 * 400
        THEN SingleNearestOf(1..5)
        ELSE call.indexes = <<1, 2, 3, 4, 5>>

\* The stripe of test_spans.py, beside the text: the fourth line is the nearest.
C17_Witness ==
    /\ StripeCase
    /\ call.trigger_bbox = <<0, 0, 12, 200>>
    /\ call.indexes = <<4>>

-----------------------------------------------------------------------------
(* sweep.py: metrics and verdict of one span *)
(*                                                                         *)
(* Ratios are kept in millionths, as round(x, 6) leaves them, and the mean *)
(* word confidence in thousandths, as round(x, 3) leaves it; thresholds   *)
(* are in the same units (0.65 is 650000, 65.0 is 65000).                  *)

GARBAGE_CHARS == {"|", "{", "}", "[", "]", "<", ">", "_", "~", "^"}

\* str.isspace() and str.isalpha() on the characters the model has.
IsSpace(ch) == ch \in {" ", "\n"}

IsAlpha(ch) == ch \in SeqRange(UpperCase) \/ ch \in SeqRange(LowerCase)

\* round(count / total, digits) as an integer number of 10^-digits units; the texts
\* and word lists of the model are too short for a quotient to fall on a tie.
RoundedQuotient(count, total, unit) == (2 * count * unit + total) \div (2 * total)

\* SweepThresholds() with its defaults.
DefaultThresholds ==
    [fail_alpha_min |-> 650000, fail_conf_min |-> 65000, fail_garbage_max |-> 80000,
     warn_line_max |-> 25, warn_char_max |-> 2000, warn_pipe_max |-> 20000]

\* A metric that reports the non-whitespace count as char_count.
ComputeMetricsNonSpace(text, avg_word_conf, line_count) ==
    LET non_space == {i \in 1..Len(text) : ~IsSpace(text[i])}
        non_space_count == Cardinality(non_space)
        alpha_count == Cardinality({i \in non_space : IsAlpha(text[i])})
        garbage_count == Cardinality({i \in non_space : text[i] \in GARBAGE_CHARS})
        pipe_count == Cardinality({i \in non_space : text[i] = "|"})
    IN  [char_count |-> non_space_count,
         line_count |-> line_count,
         avg_word_conf |->
             IF avg_word_conf = None THEN None
             ELSE Some(RoundedQuotient(Get(avg_word_conf).sum, Get(avg_word_conf).count, 1000)),
         alpha_ratio |-> IF non_space_count = 0 THEN 0
                         ELSE RoundedQuotient(alpha_count, non_space_count, 1000000),
         garbage_ratio |-> IF non_space_count = 0 THEN 0
                           ELSE RoundedQuotient(garbage_count, non_space_count, 1000000),
         pipe_ratio |-> IF non_space_count = 0 THEN 0
                        ELSE RoundedQuotient(pipe_count, non_space_count, 1000000)]

\* compute_metrics(text, avg_word_conf, line_count); avg_word_conf is None or the
\* mean sum / count of the word confidences.
ComputeMetrics(text, avg_word_conf, line_count) ==
    LET non_space == {i \in 1..Len(text) : ~IsSpace(text[i])}
        non_space_count == Cardinality(non_space)
        alpha_count == Cardinality({i \in non_space : IsAlpha(text[i])})
        garbage_count == Cardinality({i \in non_space : text[i] \in GARBAGE_CHARS})
        pipe_count == Cardinality({i \in non_space : text[i] = "|"})
    IN  [char_count |-> Len(text),
         line_count |-> line_count,
         avg_word_conf |->
             IF avg_word_conf = None THEN None
             ELSE Some(RoundedQuotient(Get(avg_word_conf).sum, Get(avg_word_conf).count, 1000)),
         alpha_ratio |-> IF non_space_count = 0 THEN 0
                         ELSE RoundedQuotient(alpha_count, non_space_count, 1000000),
         garbage_ratio |-> IF non_space_count = 0 THEN 0
                           ELSE RoundedQuotient(garbage_count, non_space_count, 1000000),
         pipe_ratio |-> IF non_space_count = 0 THEN 0
                        ELSE RoundedQuotient(pipe_count, non_space_count, 1000000)]

\* One reason string: the metric, its value and the threshold it is compared with.
Reason(name, value, threshold) == [name |-> name, value |-> value, threshold |-> threshold]

\* A verdict whose comparisons include the threshold itself.
DecideVerdictInclusive(metrics, thresholds) ==
    LET fail_reasons ==
            (IF metrics.alpha_ratio <= thresholds.fail_alpha_min
             THEN <<Reason("alpha_ratio", metrics.alpha_ratio, thresholds.fail_alpha_min)>>
             ELSE <<>>)
            \o (IF metrics.avg_word_conf # None
                   /\ Get(metrics.avg_word_conf) <= thresholds.fail_conf_min
                THEN <<Reason("avg_word_conf", Get(metrics.avg_word_conf),
                              thresholds.fail_conf_min)>>
                ELSE <<>>)
            \o (IF metrics.garbage_ratio >= thresholds.fail_garbage_max
                THEN <<Reason("garbage_ratio", metrics.garbage_ratio,
                              thresholds.fail_garbage_max)>>
                ELSE <<>>)
        warn_reasons ==
            (IF metrics.line_count >= thresholds.warn_line_max
             THEN <<Reason("line_count", metrics.line_count, thresholds.warn_line_max)>>
             ELSE <<>>)
            \o (IF metrics.char_count >= thresholds.warn_char_max
                THEN <<Reason("char_count", metrics.char_count, thresholds.warn_char_max)>>
                ELSE <<>>)
            \o (IF metrics.pipe_ratio >= thresholds.warn_pipe_max
                THEN <<Reason("pipe_ratio", metrics.pipe_ratio, thresholds.warn_pipe_max)>>
                ELSE <<>>)
    IN  IF fail_reasons # <<>> THEN [verdict |-> "FAIL", reasons |-> fail_reasons \o warn_reasons]
        ELSE IF warn_reasons # <<>> THEN [verdict |-> "WARN", reasons |-> warn_reasons]
        ELSE [verdict |-> "PASS", reasons |-> <<>>]

\* decide_verdict(metrics, thresholds) -> (verdict, reasons)
DecideVerdict(metrics, thresholds) ==
    LET fail_reasons ==
            (IF metrics.alpha_ratio < thresholds.fail_alpha_min
             THEN <<Reason("alpha_ratio", metrics.alpha_ratio, thresholds.fail_alpha_min)>>
             ELSE <<>>)
            \o (IF metrics.avg_word_conf # None
                   /\ Get(metrics.avg_word_conf) < thresholds.fail_conf_min
                THEN <<Reason("avg_word_conf", Get(metrics.avg_word_conf),
                              thresholds.fail_conf_min)>>
                ELSE <<>>)
            \o (IF metrics.garbage_ratio > thresholds.fail_garbage_max
                THEN <<Reason("garbage_ratio", metrics.garbage_ratio,
                              thresholds.fail_garbage_max)>>
                ELSE <<>>)
        warn_reasons ==
            (IF metrics.line_count > thresholds.warn_line_max
             THEN <<Reason("line_count", metrics.line_count, thresholds.warn_line_max)>>
             ELSE <<>>)
            \o (IF metrics.char_count > thresholds.warn_char_max
                THEN <<Reason("char_count", metrics.char_count, thresholds.warn_char_max)>>
                ELSE <<>>)
            \o (IF metrics.pipe_ratio > thresholds.warn_pipe_max
                THEN <<Reason("pipe_ratio", metrics.pipe_ratio, thresholds.warn_pipe_max)>>
                ELSE <<>>)
    IN  IF fail_reasons # <<>> THEN [verdict |-> "FAIL", reasons |-> fail_reasons \o warn_reasons]
        ELSE IF warn_reasons # <<>> THEN [verdict |-> "WARN", reasons |-> warn_reasons]
        ELSE [verdict |-> "PASS", reasons |-> <<>>]

\* Metric dicts with every value below, on and above its default threshold.
VerdictMetrics ==
    [char_count : {26, 2000, 2001},
     line_count : {2, 25, 26},
     avg_word_conf : {None, Some(64999), Some(65000), Some(92000)},
     alpha_ratio : {649999, 650000, 1000000},
     garbage_ratio : {0, 80000, 80001},
     pipe_ratio : {0, 20000, 20001}]

InitVerdict ==
    /\ pc = "verdict"
    /\ printed_page_mode = "auto"
    /\ page_num = 0
    /\ arabic_switch_min = 10
    /\ printed_page_detect = TRUE
    /\ raw_results = <<>>
    /\ page_records = <<>>
    /\ \E metrics \in VerdictMetrics :
          call = [metrics |-> metrics, thresholds |-> DefaultThresholds,
                  done |-> FALSE, verdict |-> "", reasons |-> <<>>]
    /\ make_spans = Idle
    /\ detect = Idle

\* verdict, reasons = decide_verdict(metrics, thresholds)
VerdictCall ==
    /\ pc = "verdict"
    /\ ~call.done
    /\ \E r \in {DecideVerdict(call.metrics, call.thresholds)} :
          call' = [call EXCEPT !.done = TRUE, !.verdict = r.verdict, !.reasons = r.reasons]
    /\ pc' = "verdict_done"
    /\ UNCHANGED <<printed_page_mode, page_num, arabic_switch_min, printed_page_detect,
                   raw_results, page_records, make_spans, detect>>

NextVerdict == VerdictCall

SpecVerdict == InitVerdict /\ [][NextVerdict]_vars

\* The names of the fail and of the warn conditions that hold for the call.
FailConditions ==
    {n \in {"alpha_ratio", "avg_word_conf", "garbage_ratio"} :
        \/ n = "alpha_ratio" /\ call.metrics.alpha_ratio < call.thresholds.fail_alpha_min
        \/ n = "avg_word_conf" /\ call.metrics.avg_word_conf # None
              /\ Get(call.metrics.avg_word_conf) < call.thresholds.fail_conf_min
        \/ n = "garbage_ratio" /\ call.metrics.garbage_ratio > call.thresholds.fail_garbage_max}

WarnConditions ==
    {n \in {"line_count", "char_count", "pipe_ratio"} :
        \/ n = "line_count" /\ call.metrics.line_count > call.thresholds.warn_line_max
        \/ n = "char_count" /\ call.metrics.char_count > call.thresholds.warn_char_max
        \/ n = "pipe_ratio" /\ call.metrics.pipe_ratio > call.thresholds.warn_pipe_max}

ReasonNames == {call.reasons[i].name : i \in 1..Len(call.reasons)}

\* C18: the verdict is FAIL exactly when a fail condition holds, otherwise WARN
\* exactly when a warn condition holds, otherwise PASS with no reason; every
\* condition that holds contributes exactly one reason, a value equal to its
\* threshold triggers nothing and an absent avg_word_conf never causes FAIL.
C18_VerdictClassification ==
    call.done =>
        /\ call.verdict = "FAIL" <=> FailConditions # {}
        /\ call.verdict = "WARN" <=> FailConditions = {} /\ WarnConditions # {}
        /\ call.verdict = "PASS" <=> FailConditions = {} /\ WarnConditions = {}
        /\ call.verdict = "PASS" => call.reasons = <<>>
        /\ ReasonNames = FailConditions \cup WarnConditions
        /\ Len(call.reasons) = Cardinality(FailConditions \cup WarnConditions)
        /\ (/\ call.metrics.alpha_ratio = call.thresholds.fail_alpha_min
            /\ call.metrics.avg_word_conf \in {None, Some(call.thresholds.fail_conf_min)}
            /\ call.metrics.garbage_ratio = call.thresholds.fail_garbage_max
            /\ call.metrics.line_count = call.thresholds.warn_line_max
            /\ call.metrics.char_count = call.thresholds.warn_char_max
            /\ call.metrics.pipe_ratio = call.thresholds.warn_pipe_max)
              => call.verdict = "PASS"
        /\ (call.metrics.avg_word_conf = None /\ call.verdict = "FAIL")
              => (FailConditions \cap {"alpha_ratio", "garbage_ratio"}) # {}

\* Every metric on its threshold and no confidence at all: PASS.
C18_Witness ==
    /\ call.done
    /\ call.metrics = [char_count |-> 2000, line_count |-> 25, avg_word_conf |-> None,
                       alpha_ratio |-> 650000, garbage_ratio |-> 80000,
                       pipe_ratio |-> 20000]
    /\ call.verdict = "PASS"

-----------------------------------------------------------------------------
(* sweep.py: run_sweep, one QA record per sidecar *)

\* "\n".join(texts)
RECURSIVE JoinNewline(_)
JoinNewline(texts) ==
    IF texts = <<>> THEN <<>>
    ELSE IF Len(texts) = 1 THEN texts[1]
    ELSE texts[1] \o <<"\n">> \o JoinNewline(Tail(texts))

\* by_id.get(line_id): the line of the page record with that id, or None.
LineById(page_record, line_id) ==
    LET hits == {i \in 1..Len(page_record.lines) : page_record.lines[i].line_id = line_id}
    IN  IF hits = {} THEN None ELSE Some(page_record.lines[SetMax(hits)])

\* The lines of the page record that the line ids name, in the order of the ids.
FoundLines(page_record, line_ids) ==
    LET found == FilterSeq(line_ids, {i \in 1..Len(line_ids) :
                                         LineById(page_record, line_ids[i]) # None})
    IN  [i \in 1..Len(found) |-> Get(LineById(page_record, found[i]))]

\* The numeric word confidences of the found lines, line after line: a word
\* whose confidence is no number is passed over.
RECURSIVE Confidences(_)
Confidences(lines) ==
    IF lines = <<>> THEN <<>>
    ELSE LET words == Head(lines).words
             numeric == FilterSeq(words, {i \in 1..Len(words) : words[i].confidence # None})
         IN  [i \in 1..Len(numeric) |-> Get(numeric[i].confidence)]
                \o Confidences(Tail(lines))

\* A span text that keeps the empty line texts and counts every word.
ExtractSpanTextEveryLine(page_record, line_ids) ==
    LET found == FoundLines(page_record, line_ids)
        texts == [i \in 1..Len(found) |-> found[i].text]
    IN  [text |-> JoinNewline(texts),
         confidences_used_count |-> SumSeq([i \in 1..Len(found) |-> Len(found[i].words)])]

\* extract_span_text(page_record, line_ids) -> (text, confidences_used_count)
ExtractSpanText(page_record, line_ids) ==
    LET found == FoundLines(page_record, line_ids)
        texts == [i \in 1..Len(found) |-> found[i].text]
    IN  [text |-> JoinNewline(FilterSeq(texts, {i \in 1..Len(texts) : texts[i] # <<>>})),
         confidences_used_count |-> Len(Confidences(found))]

\* _average_word_conf: None without a confidence, else the mean as sum / count.
AverageWordConf(page_record, line_ids) ==
    LET confidences == Confidences(FoundLines(page_record, line_ids))
    IN  IF confidences = <<>> THEN None
        ELSE Some([sum |-> SumSeq(confidences), count |-> Len(confidences)])

\* _line_count: how many of the line ids exist on the page.
LineCount(page_record, line_ids) == Len(FoundLines(page_record, line_ids))

\* str.rstrip() for the blanks the model has.
RECURSIVE RStrip(_)
RStrip(text) ==
    IF text # <<>> /\ IsSpace(text[Len(text)]) THEN RStrip(SubSeq(text, 1, Len(text) - 1))
    ELSE text

\* _truncate_preview(text, max_chars)
TruncatePreview(text, max_chars) ==
    IF Len(text) <= max_chars THEN text
    ELSE RStrip(SubSeq(text, 1, max_chars)) \o <<".", ".", ".">>

\* f"canonical page missing for {book_id} page_num={page_num}"
MissingPageReason(sidecar) ==
    [name |-> "canonical page missing", value |-> sidecar.book_id,
     threshold |-> sidecar.page_num]

\* The report of a sidecar: an iteration of the loop that adds the missing-page
\* reason but leaves the verdict to the metrics.
SweepRecordMetricsOnly(sidecar, page_record, thresholds) ==
    LET text == IF page_record = None THEN <<>>
                ELSE ExtractSpanText(Get(page_record), sidecar.line_ids).text
        metrics == ComputeMetrics(
                       text,
                       IF page_record = None THEN None
                       ELSE AverageWordConf(Get(page_record), sidecar.line_ids),
                       IF page_record = None THEN 0
                       ELSE LineCount(Get(page_record), sidecar.line_ids))
        decided == DecideVerdict(metrics, thresholds)
    IN  [book_id |-> sidecar.book_id, page_num |-> sidecar.page_num,
         span_id |-> sidecar.span_id, line_ids |-> sidecar.line_ids,
         metrics |-> metrics,
         verdict |-> decided.verdict,
         reasons |-> IF page_record = None
                     THEN <<MissingPageReason(sidecar)>> \o decided.reasons
                     ELSE decided.reasons,
         preview |-> TruncatePreview(text, 300),
         confidences_used_count |->
             IF page_record = None THEN 0
             ELSE ExtractSpanText(Get(page_record), sidecar.line_ids).confidences_used_count]

\* The body of the loop of run_sweep from extra_reasons to records.append(record).
SweepRecord(sidecar, page_record, thresholds) ==
    LET text == IF page_record = None THEN <<>>
                ELSE ExtractSpanText(Get(page_record), sidecar.line_ids).text
        metrics == ComputeMetrics(
                       text,
                       IF page_record = None THEN None
                       ELSE AverageWordConf(Get(page_record), sidecar.line_ids),
                       IF page_record = None THEN 0
                       ELSE LineCount(Get(page_record), sidecar.line_ids))
        decided == DecideVerdict(metrics, thresholds)
    IN  [book_id |-> sidecar.book_id, page_num |-> sidecar.page_num,
         span_id |-> sidecar.span_id, line_ids |-> sidecar.line_ids,
         metrics |-> metrics,
         verdict |-> IF page_record = None THEN "FAIL" ELSE decided.verdict,
         reasons |-> IF page_record = None
                     THEN <<MissingPageReason(sidecar)>> \o decided.reasons
                     ELSE decided.reasons,
         preview |-> TruncatePreview(text, 300),
         confidences_used_count |->
             IF page_record = None THEN 0
             ELSE ExtractSpanText(Get(page_record), sidecar.line_ids).confidences_used_count]

MaxSidecars == 2

\* A word of a page record: its confidence is a number, or None where the record
\* holds no number for it.
SweepWord(confidence) == [confidence |-> confidence]

\* The canonical page 1 of book1, as pages.jsonl holds it.
SweepPage ==
    [lines |->
        <<[line_id |-> LineId(1, 1), text |-> <<"A", "b", " ", "c">>,
           words |-> <<SweepWord(Some(90)), SweepWord(Some(80))>>],
          [line_id |-> LineId(1, 2), text |-> <<"d", "e">>,
           words |-> <<SweepWord(Some(88))>>],
          [line_id |-> LineId(1, 3), text |-> <<"|", "{">>,
           words |-> <<SweepWord(Some(40))>>],
          [line_id |-> LineId(1, 4), text |-> <<"T", "h", "a">>,
           words |-> <<SweepWord(None)>>]>>]

\* load_pages_index(corpus_dir / "books" / book_id / "pages.jsonl"): None when the
\* file does not exist, else the records keyed by page number.
PagesIndex(book_id) ==
    IF book_id = "book1" THEN Some([n \in {1} |-> SweepPage]) ELSE None

Sidecar(book_id, page_no, span_no, line_ids) ==
    [book_id |-> book_id, page_num |-> page_no,
     span_id |-> <<"p">> \o IntToStr(page_no) \o <<"_", "s">> \o IntToStr(span_no),
     line_ids |-> line_ids]

SidecarPool ==
    {Sidecar("book1", 1, 1, <<LineId(1, 1), LineId(1, 2)>>),
     Sidecar("book1", 1, 2, <<LineId(1, 3)>>),
     Sidecar("book1", 1, 3, <<LineId(1, 4), LineId(1, 9)>>),
     Sidecar("book1", 2, 1, <<LineId(2, 1)>>),          \* page 2 has no record
     Sidecar("book2", 1, 1, <<LineId(1, 1)>>),          \* book2 has no pages.jsonl
     Sidecar("", 1, 1, <<LineId(1, 1)>>)}               \* no book_id

SidecarLists == UNION {[1..n -> SidecarPool] : n \in 0..MaxSidecars}

\* The defaults, a char ceiling between the two counts of "Ab c\nde", and
\* thresholds that no metric of an empty text can trip.
SweepThresholdSets ==
    {DefaultThresholds,
     [DefaultThresholds EXCEPT !.warn_char_max = 6],
     [DefaultThresholds EXCEPT !.fail_alpha_min = 0, !.fail_conf_min = 0,
                               !.fail_garbage_max = 1000000]}

InitSweep ==
    /\ pc = "sweep"
    /\ printed_page_mode = "auto"
    /\ page_num = 0
    /\ arabic_switch_min = 10
    /\ printed_page_detect = TRUE
    /\ raw_results = <<>>
    /\ page_records = <<>>
    /\ \E sidecars \in SidecarLists, thresholds \in SweepThresholdSets :
          call = [sidecars |-> sidecars, thresholds |-> thresholds, next |-> 1,
                  records |-> <<>>, outcome |-> "running"]
    /\ make_spans = Idle
    /\ detect = Idle

\* if not sidecars: raise RuntimeError("No sidecars found ...")
SweepNoSidecars ==
    /\ pc = "sweep"
    /\ call.outcome = "running"
    /\ call.sidecars = <<>>
    /\ call' = [call EXCEPT !.outcome = "raised"]
    /\ pc' = "sweep_done"
    /\ UNCHANGED <<printed_page_mode, page_num, arabic_switch_min, printed_page_detect,
                   raw_results, page_records, make_spans, detect>>

\* One iteration of "for sidecar in sidecars": a sidecar without book_id or a book
\* without pages.jsonl raises and ends the sweep; otherwise one record is added.
SweepSidecar ==
    /\ pc = "sweep"
    /\ call.outcome = "running"
    /\ call.next <= Len(call.sidecars)
    /\ LET sidecar == call.sidecars[call.next]
           pages_index == PagesIndex(sidecar.book_id)
       IN  IF sidecar.book_id = "" \/ pages_index = None
           THEN /\ call' = [call EXCEPT !.outcome = "raised"]
                /\ pc' = "sweep_done"
           ELSE /\ \E page_record \in
                        {IF sidecar.page_num \in DOMAIN Get(pages_index)
                         THEN Some(Get(pages_index)[sidecar.page_num]) ELSE None} :
                      call' = [call EXCEPT
                                 !.records = Append(@, SweepRecord(sidecar, page_record,
                                                                   call.thresholds)),
                                 !.next = @ + 1]
                /\ pc' = pc
    /\ UNCHANGED <<printed_page_mode, page_num, arabic_switch_min, printed_page_detect,
                   raw_results, page_records, make_spans, detect>>

\* write_reports(out_dir, records) after the last sidecar.
SweepWriteReports ==
    /\ pc = "sweep"
    /\ call.outcome = "running"
    /\ call.sidecars # <<>>
    /\ call.next > Len(call.sidecars)
    /\ call' = [call EXCEPT !.outcome = "written"]
    /\ pc' = "sweep_done"
    /\ UNCHANGED <<printed_page_mode, page_num, arabic_switch_min, printed_page_detect,
                   raw_results, page_records, make_spans, detect>>

NextSweep == SweepNoSidecars \/ SweepSidecar \/ SweepWriteReports

SpecSweep == InitSweep /\ [][NextSweep]_vars

\* The sidecars whose record has been written so far, by position.
SweptSidecars == {i \in 1..Len(call.records) : i <= Len(call.sidecars)}

PageIsMissing(sidecar) ==
    /\ sidecar.book_id = "book1"
    /\ sidecar.page_num # 1

RecordReasonNames(record) == {record.reasons[i].name : i \in 1..Len(record.reasons)}

\* The metrics of the empty text trip no threshold of the sweep.
EmptyTextPasses ==
    /\ ~(0 < call.thresholds.fail_alpha_min)
    /\ ~(0 > call.thresholds.fail_garbage_max)
    /\ ~(0 > call.thresholds.warn_line_max)
    /\ ~(0 > call.thresholds.warn_char_max)
    /\ ~(0 > call.thresholds.warn_pipe_max)

\* C19: the record of a sidecar whose (book_id, page_num) has no canonical page
\* record has verdict FAIL and the "canonical page missing" reason, naming that
\* book and page, first in its reasons, whatever the thresholds are; where the
\* metrics of the empty text trip no threshold it is the only reason.
C19_MissingPageFails ==
    pc \in {"sweep", "sweep_done"} =>
        \A i \in SweptSidecars :
            PageIsMissing(call.sidecars[i]) =>
                /\ call.records[i].verdict = "FAIL"
                /\ Len(call.records[i].reasons) >= 1
                /\ call.records[i].reasons[1].name = "canonical page missing"
                /\ call.records[i].reasons[1].value = call.sidecars[i].book_id
                /\ call.records[i].reasons[1].threshold = call.sidecars[i].page_num
                /\ call.records[i].metrics.char_count = 0
                /\ EmptyTextPasses => Len(call.records[i].reasons) = 1

\* A finished sweep whose thresholds the empty text passes reported a sidecar of a
\* page without record as FAIL, for the missing page alone.
C19_Witness ==
    /\ pc = "sweep_done"
    /\ call.outcome = "written"
    /\ EmptyTextPasses
    /\ \E i \in SweptSidecars :
          /\ PageIsMissing(call.sidecars[i])
          /\ call.records[i].verdict = "FAIL"
          /\ Len(call.records[i].reasons) = 1
          /\ call.records[i].reasons[1].name = "canonical page missing"

\* The text of a sidecar's span on the canonical page of book1.
SpanTextOf(sidecar) == ExtractSpanText(SweepPage, sidecar.line_ids).text

NonWhitespaceCount(text) == Cardinality({k \in 1..Len(text) : text[k] \notin {" ", "\n"}})

\* The statement as published: char_count is the number of non-whitespace
\* characters of the span's text, and that count is compared to warn_char_max.
C20_CharCountNonWhitespace ==
    pc \in {"sweep", "sweep_done"} =>
        \A i \in SweptSidecars :
            ~PageIsMissing(call.sidecars[i]) =>
                /\ call.records[i].metrics.char_count
                       = NonWhitespaceCount(SpanTextOf(call.sidecars[i]))
                /\ call.records[i].verdict # "FAIL" =>
                       ("char_count" \in RecordReasonNames(call.records[i])
                           <=> NonWhitespaceCount(SpanTextOf(call.sidecars[i]))
                                   > call.thresholds.warn_char_max)

\* C20: the char_count metric of a span is the length of its text, the spaces and
\* the newlines that join its lines included, and that length is what is compared
\* to warn_char_max (the ratios alone are taken over the non-whitespace count).
C20_CharCountIsTextLength ==
    pc \in {"sweep", "sweep_done"} =>
        \A i \in SweptSidecars :
            ~PageIsMissing(call.sidecars[i]) =>
                /\ call.records[i].metrics.char_count = Len(SpanTextOf(call.sidecars[i]))
                /\ call.records[i].verdict # "FAIL" =>
                       ("char_count" \in RecordReasonNames(call.records[i])
                           <=> Len(SpanTextOf(call.sidecars[i])) > call.thresholds.warn_char_max)

\* "Ab c\nde" has 7 characters, 5 of them non-whitespace: with a ceiling of 6 the
\* span is WARN for its char_count of 7.
C20_Witness ==
    /\ pc \in {"sweep", "sweep_done"}
    /\ call.thresholds.warn_char_max = 6
    /\ \E i \in SweptSidecars :
          /\ SpanTextOf(call.sidecars[i]) = <<"A", "b", " ", "c", "\n", "d", "e">>
          /\ call.records[i].metrics.char_count = 7
          /\ call.records[i].verdict = "WARN"
          /\ "char_count" \in RecordReasonNames(call.records[i])

-----------------------------------------------------------------------------
(* sweep.py: extract_span_text and _average_word_conf on one page record *)

MaxExtractLines == 2

MaxLineIds == 3

\* Lines a page record can hold: two ids that can repeat, texts that can be empty,
\* words with and without a numeric confidence.
ExtractLinePool ==
    {[line_id |-> LineId(1, 1), text |-> <<"A", "b", " ", "c">>,
      words |-> <<SweepWord(Some(90)), SweepWord(Some(80))>>],
     [line_id |-> LineId(1, 1), text |-> <<"z">>,
      words |-> <<SweepWord(Some(10))>>],
     [line_id |-> LineId(1, 2), text |-> <<"d", "e">>,
      words |-> <<SweepWord(None), SweepWord(Some(88))>>],
     [line_id |-> LineId(1, 2), text |-> <<>>,
      words |-> <<SweepWord(Some(70))>>],
     [line_id |-> LineId(1, 2), text |-> <<"T", "h", "a">>,
      words |-> <<SweepWord(None)>>]}

ExtractPages ==
    {[lines |-> lines] : lines \in UNION {[1..n -> ExtractLinePool] : n \in 0..MaxExtractLines}}

\* Line-id lists of a sidecar: ids of the page, and one the page never has.
ExtractLineIds ==
    UNION {[1..n -> {LineId(1, 1), LineId(1, 2), LineId(1, 9)}] : n \in 0..MaxLineIds}

InitExtract ==
    /\ pc = "extract"
    /\ printed_page_mode = "auto"
    /\ page_num = 0
    /\ arabic_switch_min = 10
    /\ printed_page_detect = TRUE
    /\ raw_results = <<>>
    /\ page_records = <<>>
    /\ \E page_record \in ExtractPages, line_ids \in ExtractLineIds :
          call = [page_record |-> page_record, line_ids |-> line_ids, done |-> FALSE,
                  text |-> <<>>, confidences_used_count |-> 0, avg_word_conf |-> None]
    /\ make_spans = Idle
    /\ detect = Idle

\* run_sweep's two calls on a found page record.
ExtractCall ==
    /\ pc = "extract"
    /\ ~call.done
    /\ \E extracted \in {ExtractSpanText(call.page_record, call.line_ids)} :
          call' = [call EXCEPT
                     !.done = TRUE,
                     !.text = extracted.text,
                     !.confidences_used_count = extracted.confidences_used_count,
                     !.avg_word_conf = AverageWordConf(call.page_record, call.line_ids)]
    /\ UNCHANGED <<pc, printed_page_mode, page_num, arabic_switch_min, printed_page_detect,
                   raw_results, page_records, make_spans, detect>>

NextExtract == ExtractCall

SpecExtract == InitExtract /\ [][NextExtract]_vars

\* The line a line id refers to: the last line of the record with that id.
ReferredLine(line_id) ==
    LET at == {k \in 1..Len(call.page_record.lines) :
                  /\ call.page_record.lines[k].line_id = line_id
                  /\ \A m \in (k + 1)..Len(call.page_record.lines) :
                        call.page_record.lines[m].line_id # line_id}
    IN  IF at = {} THEN None ELSE Some(call.page_record.lines[CHOOSE k \in at : TRUE])

\* The references of the id list that reach a line, in the order of the list.
LiveReferences == SelectSeq(call.line_ids, LAMBDA id : ReferredLine(id) # None)

NumericWords(line) == {k \in 1..Len(line.words) : line.words[k].confidence # None}

RECURSIVE ReferenceConfCount(_)
ReferenceConfCount(ids) ==
    IF ids = <<>> THEN 0
    ELSE Cardinality(NumericWords(Get(ReferredLine(Head(ids))))) + ReferenceConfCount(Tail(ids))

RECURSIVE LineConfSum(_, _)
LineConfSum(line, k) ==
    IF k = 0 THEN 0
    ELSE (IF k \in NumericWords(line) THEN Get(line.words[k].confidence) ELSE 0)
            + LineConfSum(line, k - 1)

RECURSIVE ReferenceConfSum(_)
ReferenceConfSum(ids) ==
    IF ids = <<>> THEN 0
    ELSE LET line == Get(ReferredLine(Head(ids)))
         IN  LineConfSum(line, Len(line.words)) + ReferenceConfSum(Tail(ids))

\* The pieces of a text between its newlines.
RECURSIVE SplitNewline(_)
SplitNewline(text) ==
    LET breaks == {k \in 1..Len(text) : text[k] = "\n"}
    IN  IF breaks = {} THEN <<text>>
        ELSE LET first == CHOOSE k \in breaks : \A m \in breaks : k <= m
             IN  <<SubSeq(text, 1, first - 1)>>
                    \o SplitNewline(SubSeq(text, first + 1, Len(text)))

NonEmptyTexts ==
    SelectSeq([i \in 1..Len(LiveReferences) |-> Get(ReferredLine(LiveReferences[i])).text],
              LAMBDA t : t # <<>>)

\* C21: the text is the non-empty texts of the lines the id list reaches, in the
\* order of the list and joined by newlines, ids the record lacks being skipped;
\* the confidence count is the number of words with a numeric confidence in those
\* lines, once per reference; the mean is taken over exactly those words and is
\* absent exactly when the count is 0.
C21_SpanTextAndConfidences ==
    (pc = "extract" /\ call.done) =>
        /\ IF NonEmptyTexts = <<>> THEN call.text = <<>>
           ELSE SplitNewline(call.text) = NonEmptyTexts
        /\ call.confidences_used_count = ReferenceConfCount(LiveReferences)
        /\ call.avg_word_conf = None <=> call.confidences_used_count = 0
        /\ call.avg_word_conf # None =>
              /\ Get(call.avg_word_conf).count = call.confidences_used_count
              /\ Get(call.avg_word_conf).sum = ReferenceConfSum(LiveReferences)

\* Two lines of two words, one word without a number, read through three ids of
\* which one is not on the page: "Ab c\nde", three confidences, mean 258 / 3.
C21_Witness ==
    /\ pc = "extract"
    /\ call.done
    /\ call.line_ids = <<LineId(1, 1), LineId(1, 9), LineId(1, 2)>>
    /\ call.text = <<"A", "b", " ", "c", "\n", "d", "e">>
    /\ call.confidences_used_count = 3
    /\ call.avg_word_conf = Some([sum |-> 258, count |-> 3])

-----------------------------------------------------------------------------
(* spans.py: run_make_spans over all the pages of a run *)

MaxRunPages == 3

\* The canonical record of a page of the run, by what pages.jsonl holds for it.
RunPageRecord(kind, page_no) ==
    IF kind = "missing" THEN None
    ELSE IF kind = "empty" THEN Some([lines |-> <<>>])
    ELSE Some([lines |-> StackedLines(page_no)])

\* highlight_candidates.json of one page with the state of its canonical record. A
\* bbox of two numbers is malformed: trigger_bbox[2] raises IndexError.
RunPagePool ==
    {[kind |-> "missing", candidates |-> <<<<120, 12, 300, 28>>>>],
     [kind |-> "missing", candidates |-> <<<<120, 12>>>>],
     [kind |-> "empty", candidates |-> <<<<120, 12, 300, 28>>>>],
     [kind |-> "text", candidates |-> <<>>],
     [kind |-> "text", candidates |-> <<<<120, 12, 300, 28>>>>],
     [kind |-> "text", candidates |-> <<<<120, 20, 300, 50>>, <<0, 0, 12, 200>>>>],
     [kind |-> "text", candidates |-> <<<<120, 12>>>>],
     [kind |-> "text", candidates |-> <<<<120, 12, 300, 28>>, <<120, 12>>>>]}

RunPageLists == UNION {[1..n -> RunPagePool] : n \in 0..MaxRunPages}

RunConfig ==
    [k_before |-> 1, k_after |-> 1,
     min_overlap_frac |-> [num |-> 2, den |-> 100],
     min_x_overlap_px |-> 40,
     max_overlap_lines |-> 8]

\* A page loop that ends at the first page it has to skip.
SpanRunStepStopAtSkip(run, page_no) ==
    LET input == run.pages[page_no]
        page == RunPageRecord(input.kind, page_no)
    IN  IF page = None \/ Get(page).lines = <<>>
        THEN [run EXCEPT !.next = Len(run.pages) + 1]
        ELSE IF \E i \in 1..Len(input.candidates) : Len(input.candidates[i]) < 4
        THEN [run EXCEPT !.outcome = "raised", !.raised_at = page_no]
        ELSE [run EXCEPT
                !.next = page_no + 1,
                !.processed = @ + 1,
                !.outputs = [@ EXCEPT ![page_no] =
                                Some([page_num |-> page_no,
                                      k_before |-> run.cfg.k_before,
                                      k_after |-> run.cfg.k_after,
                                      spans |-> MakeSpans(page_no, Get(page).lines,
                                                          input.candidates, run.cfg)])]]

\* One iteration of "for candidate_file in page_candidate_files": continue for a
\* page without record or without lines; an exception of the body leaves the
\* function, nothing in run_make_spans catches it; otherwise spans.json is written.
SpanRunStep(run, page_no) ==
    LET input == run.pages[page_no]
        page == RunPageRecord(input.kind, page_no)
    IN  IF page = None \/ Get(page).lines = <<>>
        THEN [run EXCEPT !.next = page_no + 1]
        ELSE IF \E i \in 1..Len(input.candidates) : Len(input.candidates[i]) < 4
        THEN [run EXCEPT !.outcome = "raised", !.raised_at = page_no]
        ELSE [run EXCEPT
                !.next = page_no + 1,
                !.processed = @ + 1,
                !.outputs = [@ EXCEPT ![page_no] =
                                Some([page_num |-> page_no,
                                      k_before |-> run.cfg.k_before,
                                      k_after |-> run.cfg.k_after,
                                      spans |-> MakeSpans(page_no, Get(page).lines,
                                                          input.candidates, run.cfg)])]]

InitSpanRun ==
    /\ pc = "span_run"
    /\ printed_page_mode = "auto"
    /\ page_num = 0
    /\ arabic_switch_min = 10
    /\ printed_page_detect = TRUE
    /\ raw_results = <<>>
    /\ page_records = <<>>
    /\ call = Idle
    /\ detect = Idle
    /\ \E pages \in RunPageLists :
          make_spans = [cfg |-> RunConfig, pages |-> pages, next |-> 1, processed |-> 0,
                        outputs |-> [i \in 1..Len(pages) |-> None],
                        outcome |-> "running", raised_at |-> 0]

\* if not page_candidate_files: raise RuntimeError(...)
SpanRunNoFiles ==
    /\ pc = "span_run"
    /\ make_spans.outcome = "running"
    /\ make_spans.pages = <<>>
    /\ make_spans' = [make_spans EXCEPT !.outcome = "raised"]
    /\ UNCHANGED <<pc, printed_page_mode, page_num, arabic_switch_min, printed_page_detect,
                   raw_results, page_records, call, detect>>

SpanRunPage ==
    /\ pc = "span_run"
    /\ make_spans.outcome = "running"
    /\ make_spans.next <= Len(make_spans.pages)
    /\ make_spans' = SpanRunStep(make_spans, make_spans.next)
    /\ UNCHANGED <<pc, printed_page_mode, page_num, arabic_switch_min, printed_page_detect,
                   raw_results, page_records, call, detect>>

\* print("Span generation completed ..."); return 0
SpanRunFinish ==
    /\ pc = "span_run"
    /\ make_spans.outcome = "running"
    /\ make_spans.pages # <<>>
    /\ make_spans.next > Len(make_spans.pages)
    /\ make_spans' = [make_spans EXCEPT !.outcome = "completed"]
    /\ UNCHANGED <<pc, printed_page_mode, page_num, arabic_switch_min, printed_page_detect,
                   raw_results, page_records, call, detect>>

NextSpanRun == SpanRunNoFiles \/ SpanRunPage \/ SpanRunFinish

SpecSpanRun == InitSpanRun /\ [][NextSpanRun]_vars

\* Pages the loop has gone through, the page that raised not included.
PagesDone == 1..(make_spans.next - 1)

IsSkipPage(i) == make_spans.pages[i].kind \in {"missing", "empty"}

HasMalformedBox(i) ==
    \E k \in 1..Len(make_spans.pages[i].candidates) :
        Len(make_spans.pages[i].candidates[k]) # 4

\* C22: a page without canonical record, or whose record has no line, gets no
\* spans.json and raises nothing, whatever its candidates are, and the loop goes
\* on: every page with lines that the loop went through after it has its
\* spans.json, and a run that raised did so on a page with lines.
C22_SkippedPagesAreNotErrors ==
    pc = "span_run" =>
        /\ \A i \in 1..Len(make_spans.pages) :
              IsSkipPage(i) =>
                  /\ make_spans.outputs[i] = None
                  /\ make_spans.raised_at # i
        /\ \A i \in PagesDone : ~IsSkipPage(i) => make_spans.outputs[i] # None
        /\ make_spans.processed = Cardinality({i \in PagesDone : ~IsSkipPage(i)})
        /\ (make_spans.outcome = "raised" /\ make_spans.pages # <<>>) =>
              /\ make_spans.raised_at = make_spans.next
              /\ ~IsSkipPage(make_spans.raised_at)
              /\ HasMalformedBox(make_spans.raised_at)

\* A completed run of three pages: no record, a record without lines, then a
\* page with lines whose spans.json was written.
C22_Witness ==
    /\ pc = "span_run"
    /\ make_spans.outcome = "completed"
    /\ Len(make_spans.pages) = 3
    /\ make_spans.pages[1].kind = "missing"
    /\ HasMalformedBox(1)
    /\ make_spans.pages[2].kind = "empty"
    /\ make_spans.pages[3].kind = "text"
    /\ make_spans.outputs[1] = None
    /\ make_spans.outputs[2] = None
    /\ make_spans.outputs[3] # None
    /\ Len(Get(make_spans.outputs[3]).spans) = 2

\* C23: a failure on one page does not abort the run: once the run has ended,
\* every page with lines and well-formed highlight boxes has its spans.json,
\* the pages that come after a failed page included.
C23_FailureDoesNotAbortRun ==
    (pc = "span_run" /\ make_spans.outcome # "running") =>
        \A i \in 1..Len(make_spans.pages) :
            (~IsSkipPage(i) /\ ~HasMalformedBox(i)) => make_spans.outputs[i] # None

-----------------------------------------------------------------------------
(* utils_paths.py and artifacts.py: the write helpers on a file system *)

MaxWrites == 1

\* The paths of the file system, as tuples of names. A node is "absent", "dir",
\* or the content of a file.
FsPaths ==
    {<<"runs">>, <<"runs", "r1">>, <<"runs", "r1", "a">>,
     <<"runs", "r1", "d">>, <<"runs", "r1", "d", "x">>,
     <<"out">>, <<"out", "b">>}

\* The paths the helpers are called with: a file of the run, a file outside the
\* run, and a path of the run that can hold a directory.
WriteTargets == {<<"runs", "r1", "a">>, <<"out", "b">>, <<"runs", "r1", "d">>}

RunRoots == {None, Some(<<"runs", "r1">>)}

OverwriteModes == {"never", "if_same_run", "always"}

EmptyFs == [p \in FsPaths |-> "absent"]

\* File systems before a call: nothing, the directories only, every target a
\* file, and the run holding a directory with a file where "d" is.
InitialFileSystems ==
    {EmptyFs,
     [p \in FsPaths |-> IF Len(p) <= 2 /\ p # <<"out", "b">> THEN "dir" ELSE "absent"],
     [p \in FsPaths |-> IF p \in WriteTargets THEN "old"
                        ELSE IF p = <<"runs", "r1", "d", "x">> THEN "absent" ELSE "dir"],
     [p \in FsPaths |-> IF p \in {<<"runs", "r1", "a">>, <<"out", "b">>,
                                  <<"runs", "r1", "d", "x">>}
                        THEN "old" ELSE "dir"]}

\* path.exists()
Exists(fs, path) == fs[path] # "absent"

\* is_subpath(path, parent): path.resolve().relative_to(parent.resolve()) succeeds.
IsSubpath(path, parent) ==
    /\ Len(parent) <= Len(path)
    /\ SubSeq(path, 1, Len(parent)) = parent

\* A dry run that still creates the parent directories.
EnsureParentAlways(fs, path, dry_run) ==
    [p \in FsPaths |->
        IF Len(p) < Len(path) /\ IsSubpath(path, p) /\ fs[p] = "absent" THEN "dir" ELSE fs[p]]

\* ensure_parent: path.parent.mkdir(parents=True, exist_ok=True) unless dry_run.
EnsureParent(fs, path, dry_run) ==
    IF dry_run THEN fs
    ELSE [p \in FsPaths |->
            IF Len(p) < Len(path) /\ IsSubpath(path, p) /\ fs[p] = "absent" THEN "dir"
            ELSE fs[p]]

\* _remove_existing: shutil.rmtree for a directory, unlink for a file.
RemoveExisting(fs, path) ==
    IF fs[path] = "dir"
    THEN [p \in FsPaths |-> IF IsSubpath(p, path) THEN "absent" ELSE fs[p]]
    ELSE [fs EXCEPT ![path] = "absent"]

\* A policy that lets if_same_run replace a path outside the run.
CheckWriteAllowedFailOpen(fs, path, overwrite, dry_run, run_root) ==
    IF ~Exists(fs, path) THEN [fs |-> fs, raised |-> "none"]
    ELSE IF overwrite \in {"always", "if_same_run"}
    THEN [fs |-> IF dry_run THEN fs ELSE RemoveExisting(fs, path), raised |-> "none"]
    ELSE [fs |-> fs, raised |-> "OverwriteError"]

\* check_write_allowed: the file system it leaves and the exception it raises.
CheckWriteAllowed(fs, path, overwrite, dry_run, run_root) ==
    IF ~Exists(fs, path) THEN [fs |-> fs, raised |-> "none"]
    ELSE IF overwrite = "always"
    THEN [fs |-> IF dry_run THEN fs ELSE RemoveExisting(fs, path), raised |-> "none"]
    ELSE IF overwrite = "if_same_run"
    THEN IF run_root # None /\ IsSubpath(path, Get(run_root))
         THEN [fs |-> IF dry_run THEN fs ELSE RemoveExisting(fs, path), raised |-> "none"]
         ELSE [fs |-> fs, raised |-> "OverwriteError"]
    ELSE [fs |-> fs, raised |-> "OverwriteError"]

\* The common body of write_text_file, write_json_file and write_jsonl_records:
\* check_write_allowed, ensure_parent, then the write unless dry_run.
WriteFile(fs, path, content, dry_run, overwrite, run_root) ==
    LET checked == CheckWriteAllowed(fs, path, overwrite, dry_run, run_root)
    IN  IF checked.raised # "none" THEN checked
        ELSE IF dry_run THEN [fs |-> EnsureParent(checked.fs, path, dry_run), raised |-> "none"]
        ELSE [fs |-> [EnsureParent(checked.fs, path, dry_run) EXCEPT ![path] = content],
              raised |-> "none"]

InitWrite ==
    /\ pc = "write"
    /\ printed_page_mode = "auto"
    /\ page_num = 0
    /\ arabic_switch_min = 10
    /\ printed_page_detect = TRUE
    /\ raw_results = <<>>
    /\ page_records = <<>>
    /\ \E fs \in InitialFileSystems :
          call = [fs |-> fs, before |-> fs, op |-> "none", path |-> <<>>,
                  overwrite |-> "never", dry_run |-> FALSE, run_root |-> None,
                  raised |-> "none", count |-> 0]
    /\ make_spans = Idle
    /\ detect = Idle

\* The record of one call of a helper on the current file system.
Called(op, path, overwrite, dry_run, run_root, result) ==
    [fs |-> result.fs, before |-> call.fs, op |-> op, path |-> path,
     overwrite |-> overwrite, dry_run |-> dry_run, run_root |-> run_root,
     raised |-> result.raised, count |-> call.count + 1]

WriteTextFileCall ==
    /\ pc = "write"
    /\ call.count < MaxWrites
    /\ \E path \in WriteTargets, overwrite \in OverwriteModes, dry_run \in BOOLEAN,
          run_root \in RunRoots :
          call' = Called("write_text_file", path, overwrite, dry_run, run_root,
                         WriteFile(call.fs, path, "text", dry_run, overwrite, run_root))
    /\ UNCHANGED <<pc, printed_page_mode, page_num, arabic_switch_min, printed_page_detect,
                   raw_results, page_records, make_spans, detect>>

WriteJsonFileCall ==
    /\ pc = "write"
    /\ call.count < MaxWrites
    /\ \E path \in WriteTargets, overwrite \in OverwriteModes, dry_run \in BOOLEAN,
          run_root \in RunRoots :
          call' = Called("write_json_file", path, overwrite, dry_run, run_root,
                         WriteFile(call.fs, path, "json", dry_run, overwrite, run_root))
    /\ UNCHANGED <<pc, printed_page_mode, page_num, arabic_switch_min, printed_page_detect,
                   raw_results, page_records, make_spans, detect>>

WriteJsonlRecordsCall ==
    /\ pc = "write"
    /\ call.count < MaxWrites
    /\ \E path \in WriteTargets, overwrite \in OverwriteModes, dry_run \in BOOLEAN,
          run_root \in RunRoots :
          call' = Called("write_jsonl_records", path, overwrite, dry_run, run_root,
                         WriteFile(call.fs, path, "jsonl", dry_run, overwrite, run_root))
    /\ UNCHANGED <<pc, printed_page_mode, page_num, arabic_switch_min, printed_page_detect,
                   raw_results, page_records, make_spans, detect>>

CheckWriteAllowedCall ==
    /\ pc = "write"
    /\ call.count < MaxWrites
    /\ \E path \in WriteTargets, overwrite \in OverwriteModes, dry_run \in BOOLEAN,
          run_root \in RunRoots :
          call' = Called("check_write_allowed", path, overwrite, dry_run, run_root,
                         CheckWriteAllowed(call.fs, path, overwrite, dry_run, run_root))
    /\ UNCHANGED <<pc, printed_page_mode, page_num, arabic_switch_min, printed_page_detect,
                   raw_results, page_records, make_spans, detect>>

EnsureParentCall ==
    /\ pc = "write"
    /\ call.count < MaxWrites
    /\ \E path \in WriteTargets, dry_run \in BOOLEAN :
          call' = Called("ensure_parent", path, "never", dry_run, None,
                         [fs |-> EnsureParent(call.fs, path, dry_run), raised |-> "none"])
    /\ UNCHANGED <<pc, printed_page_mode, page_num, arabic_switch_min, printed_page_detect,
                   raw_results, page_records, make_spans, detect>>

NextWrite ==
    \/ WriteTextFileCall
    \/ WriteJsonFileCall
    \/ WriteJsonlRecordsCall
    \/ CheckWriteAllowedCall
    \/ EnsureParentCall

SpecWrite == InitWrite /\ [][NextWrite]_vars

Writers == {"write_text_file", "write_json_file", "write_jsonl_records"}

PolicyCall == pc = "write" /\ call.op \in Writers \cup {"check_write_allowed"}

TargetExisted == call.before[call.path] # "absent"

UnderRunRoot ==
    /\ call.run_root # None
    /\ \A k \in 1..Len(Get(call.run_root)) :
          k <= Len(call.path) /\ call.path[k] = Get(call.run_root)[k]

WrittenContent ==
    IF call.op = "write_text_file" THEN "text"
    ELSE IF call.op = "write_json_file" THEN "json" ELSE "jsonl"

\* C24: the overwrite policy is fail-closed. On an existing path, "never" raises
\* OverwriteError and leaves the file system as it was; "if_same_run" replaces the
\* path only when it lies under the active run root and raises OverwriteError
\* otherwise, also without a run root; "always" replaces it anywhere. A path that
\* does not exist is written under every mode, and nothing that existed changes
\* outside these cases.
C24_OverwriteFailClosed ==
    PolicyCall =>
        /\ (TargetExisted /\ call.overwrite = "never") =>
              (call.raised = "OverwriteError" /\ call.fs = call.before)
        /\ (TargetExisted /\ call.overwrite = "if_same_run" /\ ~UnderRunRoot) =>
              (call.raised = "OverwriteError" /\ call.fs = call.before)
        /\ (TargetExisted /\ call.overwrite = "if_same_run" /\ UnderRunRoot) =>
              call.raised = "none"
        /\ (TargetExisted /\ call.overwrite = "always") => call.raised = "none"
        /\ ~TargetExisted => call.raised = "none"
        /\ (call.raised = "none" /\ ~call.dry_run /\ call.op \in Writers) =>
              call.fs[call.path] = WrittenContent
        /\ \A p \in FsPaths :
              (call.before[p] # "absent" /\ call.fs[p] # call.before[p]) =>
                  /\ ~call.dry_run
                  /\ \/ call.overwrite = "always"
                     \/ call.overwrite = "if_same_run" /\ UnderRunRoot
                  /\ \A k \in 1..Len(call.path) : k <= Len(p) /\ p[k] = call.path[k]

\* write_json_file with if_same_run and the run root runs/r1: an existing
\* runs/r1/a was replaced.
C24_Witness ==
    /\ pc = "write"
    /\ call.op = "write_json_file"
    /\ call.overwrite = "if_same_run"
    /\ call.run_root = Some(<<"runs", "r1">>)
    /\ call.path = <<"runs", "r1", "a">>
    /\ call.before[call.path] = "old"
    /\ ~call.dry_run
    /\ call.raised = "none"
    /\ call.fs[call.path] = "json"

\* C25: with dry_run set, no helper changes the file system, under every
\* overwrite mode and whether or not the target or its parent exists.
C25_DryRunChangesNothing ==
    (pc = "write" /\ call.op # "none" /\ call.dry_run) => call.fs = call.before

\* A dry run of write_text_file with "always" on the empty file system and on an
\* existing directory of the run left both as they were.
C25_Witness ==
    /\ pc = "write"
    /\ call.op = "write_text_file"
    /\ call.dry_run
    /\ call.overwrite = "always"
    /\ call.path = <<"runs", "r1", "d">>
    /\ call.before[<<"runs", "r1", "d">>] = "dir"
    /\ call.before[<<"runs", "r1", "d", "x">>] = "old"
    /\ call.raised = "none"
    /\ call.fs = call.before

-----------------------------------------------------------------------------
(* _group_lines against its description, on the calls of SpecGroup *)

\* Twice the vertical centre of the i-th word of the call.
WordCentre(i) == call.words[i].bbox[2] + call.words[i].bbox[4]

WordLeft(i) == call.words[i].bbox[1]

\* Word j is processed before word i: smaller (vertical centre, left edge), the
\* order of the list deciding between equal keys.
ProcessedBefore(j, i) ==
    \/ WordCentre(j) < WordCentre(i)
    \/ WordCentre(j) = WordCentre(i) /\ WordLeft(j) < WordLeft(i)
    \/ WordCentre(j) = WordCentre(i) /\ WordLeft(j) = WordLeft(i) /\ j < i

\* The words of the call in the order they are processed.
ProcessingOrder ==
    [k \in 1..Len(call.words) |->
        call.words[CHOOSE i \in 1..Len(call.words) :
            Cardinality({j \in 1..Len(call.words) : ProcessedBefore(j, i)}) = k - 1]]

\* The sum of the doubled vertical centres of the words at the given steps.
RECURSIVE CentreTotal(_, _)
CentreTotal(sorted, steps) ==
    IF steps = {} THEN 0
    ELSE LET k == CHOOSE x \in steps : TRUE
         IN  sorted[k].bbox[2] + sorted[k].bbox[4] + CentreTotal(sorted, steps \ {k})

\* The cluster, numbered by opening, of each of the first k words processed.
RECURSIVE ClusterOfStep(_, _, _)
ClusterOfStep(sorted, tolerance, k) ==
    IF k = 0 THEN <<>>
    ELSE LET prev == ClusterOfStep(sorted, tolerance, k - 1)
             opened == Cardinality({prev[j] : j \in 1..(k - 1)})
             fits == {c \in 1..opened :
                        LET members == {j \in 1..(k - 1) : prev[j] = c}
                            n == Cardinality(members)
                            d == (sorted[k].bbox[2] + sorted[k].bbox[4]) * n
                                    - CentreTotal(sorted, members)
                        IN  d <= 2 * n * tolerance /\ -d <= 2 * n * tolerance}
         IN  Append(prev, IF fits = {} THEN opened + 1
                          ELSE CHOOSE c \in fits : \A e \in fits : c <= e)

\* Per cluster, in order of opening: its steps, and the sum of their centres.
ClusterTable(sorted, assigned) ==
    [c \in 1..Cardinality({assigned[j] : j \in 1..Len(assigned)}) |->
        LET steps == {j \in 1..Len(assigned) : assigned[j] = c}
        IN  [steps |-> steps, total |-> CentreTotal(sorted, steps), size |-> Cardinality(steps)]]

\* The cluster of rank r in ascending final mean centre, the order of opening
\* deciding between equal means.
ClusterOfRank(table, r) ==
    CHOOSE c \in 1..Len(table) :
        Cardinality({d \in 1..Len(table) :
            \/ table[d].total * table[c].size < table[c].total * table[d].size
            \/ table[d].total * table[c].size = table[c].total * table[d].size /\ d < c})
        = r - 1

\* The words at the given steps from left to right, the processing order deciding
\* between equal left edges.
WordsLeftToRight(sorted, steps) ==
    [n \in 1..Cardinality(steps) |->
        sorted[CHOOSE j \in steps :
            Cardinality({m \in steps :
                \/ sorted[m].bbox[1] < sorted[j].bbox[1]
                \/ sorted[m].bbox[1] = sorted[j].bbox[1] /\ m < j}) = n - 1]]

RECURSIVE SpacedText(_)
SpacedText(ws) ==
    IF Len(ws) = 1 THEN ws[1].text
    ELSE ws[1].text \o <<" ">> \o SpacedText(Tail(ws))

RankDigit(r) == <<"1", "2", "3", "4", "5", "6", "7", "8", "9">>[r]

\* The lines the description gives for the words and the tolerance of the call.
DescribedLines ==
    LET sorted == ProcessingOrder
        assigned == ClusterOfStep(sorted, call.y_tolerance_px, Len(sorted))
        table == ClusterTable(sorted, assigned)
    IN  [r \in 1..Len(table) |->
            LET ws == WordsLeftToRight(sorted, table[ClusterOfRank(table, r)].steps)
            IN  [line_id |-> <<"p", "1", "_", "l", RankDigit(r)>>,
                 words |-> ws,
                 text |-> SpacedText(ws)]]

\* C26: words are processed in ascending (vertical centre, left edge) order, each
\* joins the first open cluster whose running mean centre is at most
\* y_tolerance_px away, or opens a cluster; the lines are the clusters in
\* ascending final mean centre, named p{page}_l{rank} from 1, their words from
\* left to right and their text those words' texts joined by single spaces; no
\* word gives no line.
C26_GroupLinesAsDescribed ==
    (pc = "group_done" /\ call.done) =>
        /\ call.words = <<>> => call.lines = <<>>
        /\ call.words # <<>> =>
              LET described == DescribedLines
              IN  /\ Len(call.lines) = Len(described)
                  /\ \A r \in 1..Len(described) :
                        /\ call.lines[r].line_id = described[r].line_id
                        /\ call.lines[r].words = described[r].words
                        /\ call.lines[r].text = described[r].text

\* Words listed bottom-up with centres 129, 114 and 100 under tolerance 14: the
\* word at 114 is exactly 14 from the first cluster and joins it, the word at 129
\* is 22 from the mean 107 and opens the second line.
C26_Witness ==
    /\ pc = "group_done"
    /\ call.done
    /\ call.y_tolerance_px = 14
    /\ call.words = <<W(<<"f">>, <<5, 128, 15, 130>>, 90),
                      W(<<"c">>, <<50, 113, 60, 115>>, 90),
                      W(<<"a">>, <<10, 99, 20, 101>>, 90)>>
    /\ Len(call.lines) = 2
    /\ call.lines[1].text = <<"a", " ", "c">>
    /\ call.lines[2].text = <<"f">>

-----------------------------------------------------------------------------
(* spans.py: the raw span of one highlight, run_make_spans lines 179-201 *)

\* Highlights at the top and at the bottom of the page, over an odd and an even
\* number of lines, and beside the text.
RawSpanTriggers ==
    {<<120, 12, 300, 28>>,      \* on line 1
     <<120, 20, 300, 50>>,      \* across lines 1 and 2
     <<120, 0, 300, 200>>,      \* over every line
     <<120, 50, 300, 150>>,     \* across lines 2 to 5
     <<120, 110, 300, 150>>,    \* across lines 4 and 5
     <<0, 0, 12, 200>>}         \* beside the text

RawSpanConfigs ==
    {[k_before |-> kb, k_after |-> ka,
      min_overlap_frac |-> [num |-> 2, den |-> 100],
      min_x_overlap_px |-> 40,
      max_overlap_lines |-> cap] : kb \in 0..2, ka \in 0..2, cap \in {2, 8}}

InitRawSpan ==
    /\ pc = "raw_span"
    /\ printed_page_mode = "auto"
    /\ page_num = 0
    /\ arabic_switch_min = 10
    /\ printed_page_detect = TRUE
    /\ raw_results = <<>>
    /\ page_records = <<>>
    /\ \E n \in 1..MaxSelectLines, trigger_bbox \in RawSpanTriggers, cfg \in RawSpanConfigs :
          call = [lines |-> SelectLines(n), trigger_bbox |-> trigger_bbox, cfg |-> cfg,
                  done |-> FALSE, span |-> None]
    /\ make_spans = Idle
    /\ detect = Idle

\* The body of "for candidate in payload.get('candidates', [])" for one candidate.
RawSpanCall ==
    /\ pc = "raw_span"
    /\ ~call.done
    /\ call' = [call EXCEPT !.done = TRUE,
                            !.span = Some(RawSpan(1, call.lines, call.trigger_bbox, call.cfg))]
    /\ UNCHANGED <<pc, printed_page_mode, page_num, arabic_switch_min, printed_page_detect,
                   raw_results, page_records, make_spans, detect>>

NextRawSpan == RawSpanCall

SpecRawSpan == InitRawSpan /\ [][NextRawSpan]_vars

\* The indexes _select_line_indexes returns for the call, as a set.
SelectedIndexes ==
    LET indexes == SelectLineIndexes(call.lines, call.trigger_bbox, call.cfg)
    IN  {indexes[i] : i \in 1..Len(indexes)}

\* The median of the selected indexes, the upper one when their number is even:
\* exactly half of them, rounded down, are smaller.
AnchorIndex ==
    CHOOSE a \in SelectedIndexes :
        Cardinality({x \in SelectedIndexes : x < a}) = Cardinality(SelectedIndexes) \div 2

\* C27: the raw span of a highlight is the contiguous run of page lines from
\* max(first, anchor - k_before) to min(last, anchor + k_after), anchor being the
\* median of the selected indexes (the upper median of an even number); it holds
\* the anchor line, at most k_before + k_after + 1 lines, no line id twice, the
\* one trigger box, and its box is the union of the boxes of its lines.
C27_RawSpanAroundMedian ==
    (pc = "raw_span" /\ call.done) =>
        LET span == Get(call.span)
            first == IF AnchorIndex - call.cfg.k_before < 1 THEN 1
                     ELSE AnchorIndex - call.cfg.k_before
            last == IF AnchorIndex + call.cfg.k_after > Len(call.lines) THEN Len(call.lines)
                    ELSE AnchorIndex + call.cfg.k_after
        IN  /\ Len(span.line_ids) = last - first + 1
            /\ \A i \in 1..Len(span.line_ids) :
                  span.line_ids[i] = call.lines[first + i - 1].line_id
            /\ \E i \in 1..Len(span.line_ids) :
                  span.line_ids[i] = call.lines[AnchorIndex].line_id
            /\ Len(span.line_ids) <= call.cfg.k_before + call.cfg.k_after + 1
            /\ \A i, j \in 1..Len(span.line_ids) :
                  span.line_ids[i] = span.line_ids[j] => i = j
            /\ span.trigger_bboxes = <<call.trigger_bbox>>
            /\ \A k \in 1..2 :
                  /\ \E i \in first..last : span.span_bbox[k] = call.lines[i].bbox[k]
                  /\ \A i \in first..last : span.span_bbox[k] <= call.lines[i].bbox[k]
            /\ \A k \in 3..4 :
                  /\ \E i \in first..last : span.span_bbox[k] = call.lines[i].bbox[k]
                  /\ \A i \in first..last : span.span_bbox[k] >= call.lines[i].bbox[k]

\* A highlight across lines 2 to 5 of five lines: the anchor is line 4, the upper
\* median of {2, 3, 4, 5}; with k_before 2 and k_after 2 the span runs from line 2
\* to line 5, cut at the last line.
C27_Witness ==
    /\ pc = "raw_span"
    /\ call.done
    /\ Len(call.lines) = 5
    /\ call.trigger_bbox = <<120, 50, 300, 150>>
    /\ call.cfg.max_overlap_lines = 8
    /\ call.cfg.k_before = 2
    /\ call.cfg.k_after = 2
    /\ SelectedIndexes = {2, 3, 4, 5}
    /\ Get(call.span).line_ids = <<LineId(1, 2), LineId(1, 3), LineId(1, 4), LineId(1, 5)>>
    /\ Get(call.span).span_bbox = <<100, 40, 500, 150>>

-----------------------------------------------------------------------------
(* page_numbers.py: the candidates detect_printed_page collects *)

MaxBandLines == 7

\* Line i of a page 1000 high, its vertical centre at 15 * i: with one word, without
\* words and with a trailing token, without words and without token, with two
\* words of which the last ends in a full stop.
BandLine(i) ==
    LET bbox == <<100, 15 * i - 5, 300, 15 * i + 5>>
        kind == i % 4
    IN  IF kind = 1 THEN MkLine(LineId(1, i), <<W(T14, bbox, 90)>>)
        ELSE IF kind = 2
        THEN [line_id |-> LineId(1, i), bbox |-> bbox, words |-> <<>>,
              text |-> <<"p", ".", " ", "1", "2", " ", "-">>]
        ELSE IF kind = 3
        THEN [line_id |-> LineId(1, i), bbox |-> bbox, words |-> <<>>,
              text |-> <<"-", "-">>]
        ELSE MkLine(LineId(1, i), <<W(Txiv, <<100, 15 * i - 5, 150, 15 * i + 5>>, 80),
                                    W(<<"7", ".">>, <<160, 15 * i - 5, 300, 15 * i + 5>>, 70)>>)

RECURSIVE WordsOfLines(_)
WordsOfLines(lines) ==
    IF lines = <<>> THEN <<>> ELSE Head(lines).words \o WordsOfLines(Tail(lines))

\* A page holding the lines picked, listed from the top or from the bottom.
BandPage(picked, top_down) ==
    LET ascending == SetToSortedSeq(picked)
        lines == [k \in 1..Len(ascending) |->
                    BandLine(IF top_down THEN ascending[k]
                             ELSE ascending[Len(ascending) + 1 - k])]
    IN  [scan_relpath |-> <<"s", ".", "p", "n", "g">>,
         words |-> WordsOfLines(lines),
         lines |-> lines]

\* top_band_frac 0.12 (the default) and 0.06, whose limit 60 is the centre of line 4.
BandFractions == {[num |-> 12, den |-> 100], [num |-> 6, den |-> 100]}

InitBand ==
    /\ pc = "band"
    /\ printed_page_mode = "auto"
    /\ page_num = 0
    /\ arabic_switch_min = 10
    /\ printed_page_detect = TRUE
    /\ raw_results = <<>>
    /\ page_records = <<>>
    /\ call = Idle
    /\ make_spans = Idle
    /\ \E picked \in SUBSET (1..MaxBandLines), top_down \in BOOLEAN, frac \in BandFractions :
          detect = [page |-> BandPage(picked, top_down),
                    args |-> [DetectArgs("neutral", TRUE) EXCEPT
                                !.page_width = 1000, !.page_height = 1000,
                                !.top_band_frac = frac],
                    candidates |-> <<>>,
                    out |-> None]

\* detect_printed_page(page, ...): the candidates it collects, then its result.
BandCall ==
    /\ pc = "band"
    /\ detect.out = None
    /\ \E candidates \in {Candidates(detect.page, detect.args)} :
          detect' = [detect EXCEPT
                       !.candidates = candidates,
                       !.out = Some(DetectPrintedPage(detect.page, detect.args))]
    /\ UNCHANGED <<pc, printed_page_mode, page_num, arabic_switch_min, printed_page_detect,
                   raw_results, page_records, call, make_spans>>

NextBand == BandCall

SpecBand == InitBand /\ [][NextBand]_vars

\* The vertical centre of the box is at most top_band_frac times the page height.
InTopBand(bbox) ==
    (bbox[2] + bbox[4]) * detect.args.top_band_frac.den
        <= 2 * detect.args.top_band_frac.num * detect.args.page_height

\* Line j of the page comes before line i from the top.
LineAbove(j, i) ==
    LET lj == detect.page.lines[j]
        li == detect.page.lines[i]
    IN  \/ lj.bbox[2] + lj.bbox[4] < li.bbox[2] + li.bbox[4]
        \/ lj.bbox[2] + lj.bbox[4] = li.bbox[2] + li.bbox[4] /\ lj.bbox[1] < li.bbox[1]

PageLineIndexes == 1..Len(detect.page.lines)

\* The topmost 5 of the lines within the band.
TopFiveWithinBand ==
    {i \in PageLineIndexes :
        /\ InTopBand(detect.page.lines[i].bbox)
        /\ Cardinality({j \in PageLineIndexes :
                           InTopBand(detect.page.lines[j].bbox) /\ LineAbove(j, i)}) < 5}

\* The topmost 5 lines of the page, less those outside the band.
FirstFiveThenBand ==
    {i \in PageLineIndexes :
        /\ Cardinality({j \in PageLineIndexes : LineAbove(j, i)}) < 5
        /\ InTopBand(detect.page.lines[i].bbox)}

\* The line has a last word, or a text with an alphanumeric character.
LineHasToken(line) ==
    \/ line.words # <<>> /\ line.words[Len(line.words)].text # <<>>
    \/ line.words = <<>> /\ \E k \in 1..Len(line.text) : IsAlnum(line.text[k])

\* text is the trailing alphanumeric token of the line's text.
IsTrailingToken(text, line_text) ==
    \E a \in 1..Len(line_text) :
        /\ a + Len(text) - 1 <= Len(line_text)
        /\ text # <<>>
        /\ SubSeq(line_text, a, a + Len(text) - 1) = text
        /\ \A k \in a..(a + Len(text) - 1) : IsAlnum(line_text[k])
        /\ a = 1 \/ ~IsAlnum(line_text[a - 1])
        /\ \A k \in (a + Len(text))..Len(line_text) : ~IsAlnum(line_text[k])

\* The candidate carries the line: its id and box, and the text and confidence of
\* its last word, or its trailing token with confidence 0.
CarriesLine(candidate, line) ==
    /\ candidate.source = "line"
    /\ candidate.line_id = Some(line.line_id)
    /\ candidate.bbox = line.bbox
    /\ IF line.words # <<>>
       THEN /\ candidate.text = line.words[Len(line.words)].text
            /\ candidate.conf = line.words[Len(line.words)].confidence
       ELSE /\ IsTrailingToken(candidate.text, line.text)
            /\ candidate.conf = 0

WordsInBand == SelectSeq(detect.page.words, LAMBDA w : InTopBand(w.bbox))

CandidatesFrom(source) == SelectSeq(detect.candidates, LAMBDA c : c.source = source)

\* The word candidates are exactly the words within the band, and the two ways of
\* taking the top lines agree.
WordCandidatesAndTopLines ==
    /\ Len(CandidatesFrom("word")) = Len(WordsInBand)
    /\ \A k \in 1..Len(WordsInBand) :
          /\ CandidatesFrom("word")[k].text = WordsInBand[k].text
          /\ CandidatesFrom("word")[k].conf = WordsInBand[k].confidence
          /\ CandidatesFrom("word")[k].bbox = WordsInBand[k].bbox
          /\ CandidatesFrom("word")[k].line_id = None
    /\ Len(detect.candidates) = Len(CandidatesFrom("word")) + Len(CandidatesFrom("line"))
    /\ TopFiveWithinBand = FirstFiveThenBand

\* The line candidates are, one to one, the given lines of the page.
LineCandidatesAre(expected) ==
    /\ Len(CandidatesFrom("line")) = Cardinality(expected)
    /\ \A i \in expected :
          \E k \in 1..Len(CandidatesFrom("line")) :
              CarriesLine(CandidatesFrom("line")[k], detect.page.lines[i])

\* The statement as published: one candidate for each of the topmost 5 lines
\* within the band.
C28_CandidatesEveryTopLine ==
    (pc = "band" /\ detect.out # None) =>
        /\ WordCandidatesAndTopLines
        /\ LineCandidatesAre(TopFiveWithinBand)

\* C28: the candidates are every word whose vertical centre is at most
\* top_band_frac times the page height, plus one candidate for each of the topmost
\* 5 lines within the band that has a token: its last word's text and
\* confidence, or without words the trailing alphanumeric token of its text with
\* confidence 0; a line without words whose text has no alphanumeric character
\* gives no candidate. The first 5 lines less those outside the band are the
\* topmost 5 lines within the band.
C28_CandidatesEveryTopLineWithToken ==
    (pc = "band" /\ detect.out # None) =>
        /\ WordCandidatesAndTopLines
        /\ LineCandidatesAre({i \in TopFiveWithinBand : LineHasToken(detect.page.lines[i])})

\* Seven lines listed bottom-up, all within the band 0.12: the top five give four
\* line candidates, line 3 ("--") giving none, and lines 6 and 7 are left out.
C28_Witness ==
    /\ pc = "band"
    /\ detect.out # None
    /\ Len(detect.page.lines) = 7
    /\ detect.page.lines[1].line_id = LineId(1, 7)
    /\ detect.args.top_band_frac = [num |-> 12, den |-> 100]
    /\ Cardinality(TopFiveWithinBand) = 5
    /\ Len(CandidatesFrom("line")) = 4
    /\ CandidatesFrom("line")[2].text = <<"1", "2">>
    /\ CandidatesFrom("line")[2].conf = 0
    /\ CandidatesFrom("line")[3].text = <<"7", ".">>
    /\ Len(CandidatesFrom("word")) = 4

-----------------------------------------------------------------------------
(* ocr.py: the cluster loop of _group_lines, word by word *)

InitCluster ==
    /\ pc = "cluster"
    /\ printed_page_mode = "auto"
    /\ page_num = 0
    /\ arabic_switch_min = 10
    /\ printed_page_detect = TRUE
    /\ raw_results = <<>>
    /\ page_records = <<>>
    /\ \E words \in GroupWordLists, tol \in GroupTolerances :
          call = [words |-> words,
                  sorted_words |-> StableSort(words,
                      [i \in 1..Len(words) |-> [j \in 1..Len(words) |->
                          WordOrderCompare(words[i], words[j])]]),
                  y_tolerance_px |-> tol, next |-> 1, clusters |-> <<>>,
                  joined |-> <<>>, done |-> FALSE, lines |-> <<>>]
    /\ make_spans = Idle
    /\ detect = Idle

\* One iteration of "for word in sorted_words"; joined records the cluster, in
\* order of opening, the word went to.
ClusterWord ==
    /\ pc = "cluster"
    /\ ~call.done
    /\ call.next <= Len(call.sorted_words)
    /\ \E placed \in {PlaceWord(call.clusters, call.sorted_words[call.next],
                                call.y_tolerance_px)} :
          call' = [call EXCEPT
                     !.clusters = placed,
                     !.joined = Append(@,
                         CHOOSE c \in 1..Len(placed) :
                             c > Len(call.clusters) \/ placed[c] # call.clusters[c]),
                     !.next = @ + 1]
    /\ UNCHANGED <<pc, printed_page_mode, page_num, arabic_switch_min, printed_page_detect,
                   raw_results, page_records, make_spans, detect>>

\* After the loop: clusters.sort(...) and the lines built from the clusters.
ClusterLines ==
    /\ pc = "cluster"
    /\ ~call.done
    /\ call.next > Len(call.sorted_words)
    /\ call' = [call EXCEPT !.done = TRUE,
                            !.lines = GroupLines(call.words, 1, call.y_tolerance_px)]
    /\ UNCHANGED <<pc, printed_page_mode, page_num, arabic_switch_min, printed_page_detect,
                   raw_results, page_records, make_spans, detect>>

NextCluster == ClusterWord \/ ClusterLines

SpecCluster == InitCluster /\ [][NextCluster]_vars

\* Twice the sum of the vertical centres of the words of cluster c.
OpenClusterTotal(c) ==
    LET Sum[i \in 0..Len(call.clusters[c])] ==
            IF i = 0 THEN 0
            ELSE Sum[i - 1] + call.clusters[c][i].bbox[2] + call.clusters[c][i].bbox[4]
    IN  Sum[Len(call.clusters[c])]

\* The distance of the word sorted_words[k] to the running mean of cluster c,
\* times 2 * Len(cluster).
DistanceToCluster(k, c) ==
    LET d == (call.sorted_words[k].bbox[2] + call.sorted_words[k].bbox[4])
                * Len(call.clusters[c]) - OpenClusterTotal(c)
    IN  IF d < 0 THEN -d ELSE d

ClusterAccepts(k, c) ==
    DistanceToCluster(k, c) <= 2 * Len(call.clusters[c]) * call.y_tolerance_px

\* The cluster nearest-cluster matching gives the word sorted_words[k]: a cluster
\* within tolerance that no other such cluster is nearer than, 0 when none is.
NearestAccepting(k) ==
    LET accepting == {c \in 1..Len(call.clusters) : ClusterAccepts(k, c)}
    IN  IF accepting = {} THEN {0}
        ELSE {c \in accepting :
                \A e \in accepting :
                    DistanceToCluster(k, c) * Len(call.clusters[e])
                        <= DistanceToCluster(k, e) * Len(call.clusters[c])}

\* The cluster the greedy first-match rule gives it.
FirstAccepting(k) ==
    LET accepting == {c \in 1..Len(call.clusters) : ClusterAccepts(k, c)}
    IN  IF accepting = {} THEN 0 ELSE CHOOSE c \in accepting : \A e \in accepting : c <= e

\* C29: with a tolerance >= 0, a word joins the most recently opened cluster or
\* opens one, so a cluster accepts no word once a later cluster is open; for the
\* word to come no cluster but the last is within tolerance, which makes the
\* first match also the only and the nearest match; clusters are opened in
\* strictly ascending final mean centre, and line r of the result holds the words
\* of the r-th cluster opened.
C29_OnlyLastClusterMatches ==
    (pc = "cluster" /\ call.y_tolerance_px >= 0) =>
        /\ \A j \in 1..Len(call.joined) :
              call.joined[j] = Cardinality({call.joined[m] : m \in 1..j})
        /\ \A j \in 1..(Len(call.joined) - 1) : call.joined[j] <= call.joined[j + 1]
        /\ call.next <= Len(call.sorted_words) =>
              /\ \A c \in 1..(Len(call.clusters) - 1) : ~ClusterAccepts(call.next, c)
              /\ NearestAccepting(call.next) = {FirstAccepting(call.next)}
        /\ \A c \in 1..(Len(call.clusters) - 1) :
              OpenClusterTotal(c) * Len(call.clusters[c + 1])
                  < OpenClusterTotal(c + 1) * Len(call.clusters[c])
        /\ call.done =>
              /\ Len(call.lines) = Len(call.clusters)
              /\ \A r \in 1..Len(call.lines) :
                    /\ Len(call.lines[r].words) = Len(call.clusters[r])
                    /\ \A w \in 1..Len(call.clusters[r]) :
                          \E v \in 1..Len(call.lines[r].words) :
                              call.lines[r].words[v] = call.clusters[r][w]

\* Centres 100, 120 and 129 under tolerance 14: the word at 120 opens the second
\* cluster, the word at 129 is 29 from the first and joins the second.
C29_Witness ==
    /\ pc = "cluster"
    /\ call.done
    /\ call.y_tolerance_px = 14
    /\ call.joined = <<1, 2, 2>>
    /\ Len(call.lines) = 2
    /\ call.lines[1].text = <<"a">>
    /\ call.lines[2].text = <<"f", " ", "d">>

-----------------------------------------------------------------------------
(* page_numbers.py: detect_printed_page on a page and on the same page reordered *)

MaxPermWords == 2

MaxPermLines == 3

\* Words that tie on every part of the sort key but the last ones.
PermWordPool ==
    {W(T14, <<35, 2, 45, 10>>, 90),
     W(T14, <<33, 2, 47, 10>>, 90),    \* same centre, wider box
     W(Txiv, <<86, 2, 96, 10>>, 95)}

\* Lines with distinct ids and the same box, so that only the id orders them.
PermLinePool ==
    {MkLine(LineId(1, 1), <<W(T14, <<35, 2, 45, 10>>, 90)>>),
     MkLine(LineId(1, 2), <<W(T14, <<35, 2, 45, 10>>, 90)>>),
     MkLine(LineId(1, 3), <<W(T7, <<35, 2, 45, 10>>, 90)>>)}

PermWordLists == UNION {[1..n -> PermWordPool] : n \in 0..MaxPermWords}

\* Every listing of lines of the pool in which no line comes twice.
PermLineLists ==
    {lines \in UNION {[1..n -> PermLinePool] : n \in 0..MaxPermLines} :
        \A i, j \in 1..Len(lines) : lines[i] = lines[j] => i = j}

\* The list with its elements i and i + 1 exchanged.
SwapAdjacent(seq, i) ==
    [k \in 1..Len(seq) |-> IF k = i THEN seq[i + 1] ELSE IF k = i + 1 THEN seq[i] ELSE seq[k]]

InitPermute ==
    /\ pc = "permute"
    /\ printed_page_mode = "auto"
    /\ page_num = 0
    /\ arabic_switch_min = 10
    /\ printed_page_detect = TRUE
    /\ raw_results = <<>>
    /\ page_records = <<>>
    /\ call = Idle
    /\ make_spans = Idle
    /\ \E words \in PermWordLists, lines \in PermLineLists, max_top_lines \in {2, 5} :
          detect = [page |-> [scan_relpath |-> <<"s", ".", "p", "n", "g">>,
                              words |-> words, lines |-> lines],
                    args |-> [DetectArgs("neutral", TRUE) EXCEPT
                                !.max_top_lines = max_top_lines],
                    reordered |-> None, out |-> None, reordered_out |-> None]

\* The caller lists the words of the page with two neighbours exchanged.
ReorderWords ==
    /\ pc = "permute"
    /\ detect.reordered = None
    /\ \E i \in 1..(Len(detect.page.words) - 1) :
          detect' = [detect EXCEPT
                       !.reordered = Some([detect.page EXCEPT !.words = SwapAdjacent(@, i)])]
    /\ UNCHANGED <<pc, printed_page_mode, page_num, arabic_switch_min, printed_page_detect,
                   raw_results, page_records, call, make_spans>>

\* The same with two neighbouring lines.
ReorderLines ==
    /\ pc = "permute"
    /\ detect.reordered = None
    /\ \E i \in 1..(Len(detect.page.lines) - 1) :
          detect' = [detect EXCEPT
                       !.reordered = Some([detect.page EXCEPT !.lines = SwapAdjacent(@, i)])]
    /\ UNCHANGED <<pc, printed_page_mode, page_num, arabic_switch_min, printed_page_detect,
                   raw_results, page_records, call, make_spans>>

\* detect_printed_page, first on the page as listed, then on the reordered page.
DetectListing ==
    /\ pc = "permute"
    /\ detect.reordered # None
    /\ detect.reordered_out = None
    /\ \E listing \in {IF detect.out = None THEN detect.page ELSE Get(detect.reordered)} :
       \E out \in {DetectPrintedPage(listing, detect.args)} :
          detect' = IF detect.out = None
                    THEN [detect EXCEPT !.out = Some(out)]
                    ELSE [detect EXCEPT !.reordered_out = Some(out)]
    /\ UNCHANGED <<pc, printed_page_mode, page_num, arabic_switch_min, printed_page_detect,
                   raw_results, page_records, call, make_spans>>

NextPermute == ReorderWords \/ ReorderLines \/ DetectListing

SpecPermute == InitPermute /\ [][NextPermute]_vars

\* C30: for a page whose line ids are unique, listing its words or its lines in
\* another order changes neither the result triple nor the selected candidate
\* nor the ranked candidates. The pages are every listing of the words and lines
\* drawn, and exchanging two neighbours, from every listing, reaches every
\* permutation.
C30_OrderOfWordsAndLinesIrrelevant ==
    (pc = "permute" /\ detect.reordered_out # None) =>
        /\ Get(detect.reordered_out).result = Get(detect.out).result
        /\ Get(detect.reordered_out).debug_payload.selected
              = Get(detect.out).debug_payload.selected
        /\ Get(detect.reordered_out) = Get(detect.out)

\* Three lines with the same box, the line "7" listed first and then moved
\* behind: of the top 2 lines by id, p1_l1 is selected in both listings.
C30_Witness ==
    /\ pc = "permute"
    /\ detect.reordered_out # None
    /\ detect.args.max_top_lines = 2
    /\ detect.page.words = <<>>
    /\ Len(detect.page.lines) = 3
    /\ detect.page.lines[1].line_id = LineId(1, 3)
    /\ detect.page.lines[2].line_id = LineId(1, 2)
    /\ Get(detect.reordered).lines[1].line_id = LineId(1, 2)
    /\ Get(detect.out).result.printed_page = Some(14)
    /\ Get(detect.reordered_out).debug_payload.selected # None
    /\ Get(Get(detect.reordered_out).debug_payload.selected).line_id = Some(LineId(1, 1))

====
